---- MODULE Spec2Model ----
(***************************************************************************)
(* Gear-room checkout lifecycle and reconciliation.                        *)
(*                                                                         *)
(* Five specifications share this module:                                  *)
(*   Spec    - the Checkout aggregate (domain/entities/checkout.ts) driven *)
(*             by arbitrary calls of create, returnItem, returnBulkItem    *)
(*             and extendDueDate;                                          *)
(*   SpecOverdue - the overdue queries of the aggregate;                   *)
(*   SpecUC  - the return use cases (application/use-cases/               *)
(*             return-use-cases.ts) run by concurrent callers over the     *)
(*             checkout and gear-item repositories, interleaving at their  *)
(*             await points;                                               *)
(*   SpecSys - createCheckout, the return use cases, the eligibility query *)
(*             and the inventory use cases, called one after the other,    *)
(*             where a save or a publish may reject;                       *)
(*   SpecRun - the same calls, each run to its end, with the gear types    *)
(*             renamed and restocked as well.                              *)
(***************************************************************************)
EXTENDS Integers, Sequences, FiniteSets, TLC

VARIABLES
  checkout,   \* the Checkout value held by the caller (aggregate spec)
  clock,      \* deps.clock.now()
  result,     \* the last aggregate call: operation, arguments, Result
  ncalls,     \* number of aggregate calls made so far
  checkoutDb, \* db.checkouts: checkout id -> stored checkout (use-case spec)
  gearItemDb, \* db.gearItems: gear item id -> stored gear item
  gearTypeDb, \* db.gearTypes: gear type id -> stored gear type
  events,     \* db.domainEvents: published events, in order
  procs,      \* the running use-case executions: position and locals
  writes      \* per execution, the writes it has performed and their fate

vars == <<checkout, clock, result, ncalls, checkoutDb, gearItemDb, gearTypeDb, events, procs, writes>>
aggVars == <<checkout, clock, result, ncalls>>
ucVars == <<checkoutDb, gearItemDb, gearTypeDb, events, procs, writes>>

----------------------------------------------------------------------------
(* Bounds of the model *)

MaxLines == 2      \* most line items in a created checkout
MaxQty == 2        \* largest bulk quantity requested at creation
MaxTime == 1        \* last clock value
MaxCalls == 3       \* most aggregate calls after creation

----------------------------------------------------------------------------
(* Vocabulary: domain/types.ts and value objects *)

Null == "null"                 \* null for identifiers and conditions
NoDate == -1                   \* null for Date fields
Undefined == <<"undefined">>   \* an omitted optional string argument
NullNotes == <<"null">>        \* null for string fields

STATUS_ACTIVE == "ACTIVE"
STATUS_PARTIALLY_RETURNED == "PARTIALLY_RETURNED"
STATUS_COMPLETED == "COMPLETED"
CheckoutStatus == {STATUS_ACTIVE, STATUS_PARTIALLY_RETURNED, STATUS_COMPLETED}

GearCondition == {"EXCELLENT", "GOOD", "FAIR", "NEEDS_REPAIR", "RETIRED"}

GearStatus == {"AVAILABLE", "CHECKED_OUT", "MAINTENANCE", "RETIRED"}

\* Identifiers used as inputs.  "g9" and "t9" never name a line of a checkout.
GearItemIds == {"g1", "g2"}
GearTypeIds == {"t1"}
UnknownItemId == "g9"
UnknownTypeId == "t9"

\* Notes the callers pass: omitted, blank, and text with surrounding blanks.
InputNotes == {Undefined, <<" ">>, <<" ", "a">>}

\* Condition and notes of the individual returns the callers make.
ReturnItemInputs ==
  { [condition |-> "GOOD", notes |-> Undefined],
    [condition |-> "GOOD", notes |-> <<" ">>],
    [condition |-> "NEEDS_REPAIR", notes |-> <<" ", "a">>] }

\* Result values: application/result.ts
ok(v) == [ok |-> TRUE, value |-> v]
err(e) == [ok |-> FALSE, error |-> e]

----------------------------------------------------------------------------
(* Strings: String.prototype.trim on a sequence of characters *)

RECURSIVE TrimStart(_)
TrimStart(s) ==
  IF s = <<>> THEN <<>>
  ELSE IF Head(s) = " " THEN TrimStart(Tail(s)) ELSE s

RECURSIVE TrimEnd(_)
TrimEnd(s) ==
  IF s = <<>> THEN <<>>
  ELSE IF s[Len(s)] = " " THEN TrimEnd(SubSeq(s, 1, Len(s) - 1)) ELSE s

Trim(s) == TrimEnd(TrimStart(s))

\* notes?.trim() || fallback
TrimOr(notes, fallback) ==
  IF notes = Undefined THEN fallback
  ELSE IF Trim(notes) = <<>> THEN fallback ELSE Trim(notes)

----------------------------------------------------------------------------
(* Checkout aggregate: domain/entities/checkout.ts *)

NoCheckout == [status |-> "NONE"]

isItemFullyReturned(item) ==
  IF item.gearItemId # Null
    THEN item.returnedAt # NoDate
    ELSE item.returnedQuantity >= item.quantity

\* Return progress counted only once the line is fully returned.
hasReturnProgress_fullReturnOnly(item) ==
  IF item.gearItemId # Null
    THEN item.returnedAt # NoDate
    ELSE item.returnedQuantity >= item.quantity

hasReturnProgress(item) ==
  IF item.gearItemId # Null
    THEN item.returnedAt # NoDate
    ELSE item.returnedQuantity > 0

\* calculateStatus with "all returned" judged by return progress instead of
\* full return.
calculateStatus_progressCompletes(items) ==
  LET allReturned == \A i \in 1..Len(items) : hasReturnProgress(items[i])
  IN IF allReturned THEN STATUS_COMPLETED ELSE STATUS_ACTIVE

calculateStatus(items) ==
  LET allReturned == \A i \in 1..Len(items) : isItemFullyReturned(items[i])
      someReturned == \E i \in 1..Len(items) : hasReturnProgress(items[i])
  IN IF allReturned THEN STATUS_COMPLETED
     ELSE IF someReturned THEN STATUS_PARTIALLY_RETURNED
     ELSE STATUS_ACTIVE

\* Array.prototype.findIndex, given the indices whose items pass the test:
\* the first of them, 0 if there is none (the source's -1).
findIndex(matching) ==
  IF matching = {} THEN 0
  ELSE CHOOSE i \in matching : \A j \in matching : i <= j

\* One element of CreateCheckoutInput.items turned into a CheckoutItem.
newCheckoutItem(itemInput, now) ==
  [ gearItemId |-> IF itemInput.type = "individual" THEN itemInput.gearItemId ELSE Null,
    gearTypeId |-> IF itemInput.type = "bulk" THEN itemInput.gearTypeId ELSE Null,
    quantity |-> IF itemInput.type = "bulk" THEN itemInput.quantity ELSE 1,
    checkedOutAt |-> now,
    dueAt |-> itemInput.dueAt,
    returnedAt |-> NoDate,
    returnedQuantity |-> 0,
    conditionAtCheckout |-> itemInput.conditionAtCheckout,
    conditionAtReturn |-> Null,
    returnNotes |-> NullNotes ]

\* The quantity test refusing only negative quantities.
invalidQuantityAt_negativeOnly(items, i) ==
  items[i].type = "bulk" /\ items[i].quantity < 0

invalidQuantityAt(items, i) ==
  items[i].type = "bulk" /\ items[i].quantity < 1

\* Checkout.create
create(input, id, now) ==
  IF Len(input.items) = 0 THEN err([type |-> "no_items"])
  ELSE IF \E i \in 1..Len(input.items) : invalidQuantityAt(input.items, i)
    THEN LET i == CHOOSE k \in 1..Len(input.items) :
                    /\ invalidQuantityAt(input.items, k)
                    /\ \A j \in 1..(k - 1) : ~invalidQuantityAt(input.items, j)
         IN err([type |-> "invalid_quantity", index |-> i - 1,
                 quantity |-> input.items[i].quantity])
  ELSE ok([ id |-> id,
            memberId |-> input.memberId,
            staffMemberId |-> input.staffMemberId,
            items |-> [i \in 1..Len(input.items) |-> newCheckoutItem(input.items[i], now)],
            status |-> STATUS_ACTIVE,
            createdAt |-> now,
            completedAt |-> NoDate,
            notes |-> TrimOr(input.notes, NullNotes) ])

\* returnItem without the guard on a line already returned.
returnItem_noAlreadyReturnedCheck(co, itemId, condition, notes, now) ==
  IF co.status = STATUS_COMPLETED THEN err([type |-> "checkout_completed"])
  ELSE
    LET itemIndex == findIndex({i \in 1..Len(co.items) : co.items[i].gearItemId = itemId})
    IN IF itemIndex = 0 THEN err([type |-> "item_not_found", gearItemId |-> itemId])
       ELSE
         LET updatedItems ==
               [co.items EXCEPT ![itemIndex] =
                  [@ EXCEPT !.returnedAt = now,
                            !.conditionAtReturn = condition,
                            !.returnNotes = TrimOr(notes, NullNotes)]]
             newStatus == calculateStatus(updatedItems)
         IN ok([co EXCEPT !.items = updatedItems,
                          !.status = newStatus,
                          !.completedAt =
                             IF newStatus = STATUS_COMPLETED THEN now ELSE NoDate])

\* returnItem marking every line for the item returned, not the first only.
returnItem_everyMatchingLine(co, itemId, condition, notes, now) ==
  IF co.status = STATUS_COMPLETED THEN err([type |-> "checkout_completed"])
  ELSE
    LET itemIndex == findIndex({i \in 1..Len(co.items) : co.items[i].gearItemId = itemId})
    IN IF itemIndex = 0 THEN err([type |-> "item_not_found", gearItemId |-> itemId])
       ELSE IF co.items[itemIndex].returnedAt # NoDate
         THEN err([type |-> "item_already_returned"])
       ELSE
         LET updatedItems ==
               [i \in 1..Len(co.items) |->
                  IF co.items[i].gearItemId = itemId
                    THEN [co.items[i] EXCEPT !.returnedAt = now,
                                             !.conditionAtReturn = condition,
                                             !.returnNotes = TrimOr(notes, NullNotes)]
                    ELSE co.items[i]]
             newStatus == calculateStatus(updatedItems)
         IN ok([co EXCEPT !.items = updatedItems,
                          !.status = newStatus,
                          !.completedAt =
                             IF newStatus = STATUS_COMPLETED THEN now ELSE NoDate])

\* Checkout.returnItem
returnItem(co, itemId, condition, notes, now) ==
  IF co.status = STATUS_COMPLETED THEN err([type |-> "checkout_completed"])
  ELSE
    LET itemIndex == findIndex({i \in 1..Len(co.items) : co.items[i].gearItemId = itemId})
    IN IF itemIndex = 0 THEN err([type |-> "item_not_found", gearItemId |-> itemId])
       ELSE IF co.items[itemIndex].returnedAt # NoDate
         THEN err([type |-> "item_already_returned"])
       ELSE
         LET updatedItems ==
               [co.items EXCEPT ![itemIndex] =
                  [@ EXCEPT !.returnedAt = now,
                            !.conditionAtReturn = condition,
                            !.returnNotes = TrimOr(notes, NullNotes)]]
             newStatus == calculateStatus(updatedItems)
         IN ok([co EXCEPT !.items = updatedItems,
                          !.status = newStatus,
                          !.completedAt =
                             IF newStatus = STATUS_COMPLETED THEN now ELSE NoDate])

\* returnBulkItem looking the line up before it tests for a completed checkout.
returnBulkItem_lookupFirst(co, typeId, quantity, notes, now) ==
  LET itemIndex == findIndex({i \in 1..Len(co.items) : co.items[i].gearTypeId = typeId})
  IN IF itemIndex = 0 THEN err([type |-> "item_not_found", gearTypeId |-> typeId])
     ELSE IF co.status = STATUS_COMPLETED THEN err([type |-> "checkout_completed"])
     ELSE
       LET item == co.items[itemIndex]
           remaining == item.quantity - item.returnedQuantity
       IN IF quantity > remaining
            THEN err([type |-> "invalid_quantity", requested |-> quantity,
                      remaining |-> remaining])
          ELSE
            LET newReturnedQuantity == item.returnedQuantity + quantity
                isFullyReturned == newReturnedQuantity >= item.quantity
                updatedItems ==
                  [co.items EXCEPT ![itemIndex] =
                     [@ EXCEPT !.returnedQuantity = newReturnedQuantity,
                               !.returnedAt =
                                  IF isFullyReturned THEN now ELSE item.returnedAt,
                               !.returnNotes = TrimOr(notes, item.returnNotes)]]
                newStatus == calculateStatus(updatedItems)
            IN ok([co EXCEPT !.items = updatedItems,
                             !.status = newStatus,
                             !.completedAt =
                                IF newStatus = STATUS_COMPLETED THEN now ELSE NoDate])

\* returnBulkItem recomputing the status only when the line becomes fully
\* returned.
returnBulkItem_statusOnFullReturn(co, typeId, quantity, notes, now) ==
  IF co.status = STATUS_COMPLETED THEN err([type |-> "checkout_completed"])
  ELSE
    LET itemIndex == findIndex({i \in 1..Len(co.items) : co.items[i].gearTypeId = typeId})
    IN IF itemIndex = 0 THEN err([type |-> "item_not_found", gearTypeId |-> typeId])
       ELSE
         LET item == co.items[itemIndex]
             remaining == item.quantity - item.returnedQuantity
         IN IF quantity > remaining
              THEN err([type |-> "invalid_quantity", requested |-> quantity,
                        remaining |-> remaining])
            ELSE
              LET newReturnedQuantity == item.returnedQuantity + quantity
                  isFullyReturned == newReturnedQuantity >= item.quantity
                  updatedItems ==
                    [co.items EXCEPT ![itemIndex] =
                       [@ EXCEPT !.returnedQuantity = newReturnedQuantity,
                                 !.returnedAt =
                                    IF isFullyReturned THEN now ELSE item.returnedAt,
                                 !.returnNotes = TrimOr(notes, item.returnNotes)]]
                  newStatus == IF isFullyReturned THEN calculateStatus(updatedItems)
                               ELSE co.status
              IN ok([co EXCEPT !.items = updatedItems,
                               !.status = newStatus,
                               !.completedAt =
                                  IF newStatus = STATUS_COMPLETED THEN now ELSE NoDate])

\* returnBulkItem comparing the quantity with the line's quantity instead of
\* what remains of it.
returnBulkItem_guardOnLineQuantity(co, typeId, quantity, notes, now) ==
  IF co.status = STATUS_COMPLETED THEN err([type |-> "checkout_completed"])
  ELSE
    LET itemIndex == findIndex({i \in 1..Len(co.items) : co.items[i].gearTypeId = typeId})
    IN IF itemIndex = 0 THEN err([type |-> "item_not_found", gearTypeId |-> typeId])
       ELSE
         LET item == co.items[itemIndex]
             remaining == item.quantity - item.returnedQuantity
         IN IF quantity > item.quantity
              THEN err([type |-> "invalid_quantity", requested |-> quantity,
                        remaining |-> remaining])
            ELSE
              LET newReturnedQuantity == item.returnedQuantity + quantity
                  isFullyReturned == newReturnedQuantity >= item.quantity
                  updatedItems ==
                    [co.items EXCEPT ![itemIndex] =
                       [@ EXCEPT !.returnedQuantity = newReturnedQuantity,
                                 !.returnedAt =
                                    IF isFullyReturned THEN now ELSE item.returnedAt,
                                 !.returnNotes = TrimOr(notes, item.returnNotes)]]
                  newStatus == calculateStatus(updatedItems)
              IN ok([co EXCEPT !.items = updatedItems,
                               !.status = newStatus,
                               !.completedAt =
                                  IF newStatus = STATUS_COMPLETED THEN now ELSE NoDate])

\* returnBulkItem recording the quantity of the call instead of adding it.
returnBulkItem_noAccumulation(co, typeId, quantity, notes, now) ==
  IF co.status = STATUS_COMPLETED THEN err([type |-> "checkout_completed"])
  ELSE
    LET itemIndex == findIndex({i \in 1..Len(co.items) : co.items[i].gearTypeId = typeId})
    IN IF itemIndex = 0 THEN err([type |-> "item_not_found", gearTypeId |-> typeId])
       ELSE
         LET item == co.items[itemIndex]
             remaining == item.quantity - item.returnedQuantity
         IN IF quantity > remaining
              THEN err([type |-> "invalid_quantity", requested |-> quantity,
                        remaining |-> remaining])
            ELSE
              LET newReturnedQuantity == quantity
                  isFullyReturned == newReturnedQuantity >= item.quantity
                  updatedItems ==
                    [co.items EXCEPT ![itemIndex] =
                       [@ EXCEPT !.returnedQuantity = newReturnedQuantity,
                                 !.returnedAt =
                                    IF isFullyReturned THEN now ELSE item.returnedAt,
                                 !.returnNotes = TrimOr(notes, item.returnNotes)]]
                  newStatus == calculateStatus(updatedItems)
              IN ok([co EXCEPT !.items = updatedItems,
                               !.status = newStatus,
                               !.completedAt =
                                  IF newStatus = STATUS_COMPLETED THEN now ELSE NoDate])

\* Checkout.returnBulkItem
returnBulkItem(co, typeId, quantity, notes, now) ==
  IF co.status = STATUS_COMPLETED THEN err([type |-> "checkout_completed"])
  ELSE
    LET itemIndex == findIndex({i \in 1..Len(co.items) : co.items[i].gearTypeId = typeId})
    IN IF itemIndex = 0 THEN err([type |-> "item_not_found", gearTypeId |-> typeId])
       ELSE
         LET item == co.items[itemIndex]
             remaining == item.quantity - item.returnedQuantity
         IN IF quantity > remaining
              THEN err([type |-> "invalid_quantity", requested |-> quantity,
                        remaining |-> remaining])
            ELSE
              LET newReturnedQuantity == item.returnedQuantity + quantity
                  isFullyReturned == newReturnedQuantity >= item.quantity
                  updatedItems ==
                    [co.items EXCEPT ![itemIndex] =
                       [@ EXCEPT !.returnedQuantity = newReturnedQuantity,
                                 !.returnedAt =
                                    IF isFullyReturned THEN now ELSE item.returnedAt,
                                 !.returnNotes = TrimOr(notes, item.returnNotes)]]
                  newStatus == calculateStatus(updatedItems)
              IN ok([co EXCEPT !.items = updatedItems,
                               !.status = newStatus,
                               !.completedAt =
                                  IF newStatus = STATUS_COMPLETED THEN now ELSE NoDate])

\* extendDueDate without the guard on a fully returned line.
extendDueDate_noReturnedCheck(co, itemId, newDueDate) ==
  LET itemIndex == findIndex({i \in 1..Len(co.items) :
                              co.items[i].gearItemId = itemId \/ co.items[i].gearTypeId = itemId})
  IN IF itemIndex = 0 THEN err([type |-> "item_not_found"])
     ELSE ok([co EXCEPT !.items[itemIndex].dueAt = newDueDate])

\* extendDueDate moving the due date of every line that matches.
extendDueDate_everyMatchingLine(co, itemId, newDueDate) ==
  LET itemIndex == findIndex({i \in 1..Len(co.items) :
                              co.items[i].gearItemId = itemId \/ co.items[i].gearTypeId = itemId})
  IN IF itemIndex = 0 THEN err([type |-> "item_not_found"])
     ELSE IF isItemFullyReturned(co.items[itemIndex])
       THEN err([type |-> "item_already_returned"])
     ELSE ok([co EXCEPT !.items =
                [i \in 1..Len(co.items) |->
                   IF co.items[i].gearItemId = itemId \/ co.items[i].gearTypeId = itemId
                     THEN [co.items[i] EXCEPT !.dueAt = newDueDate]
                     ELSE co.items[i]]])

\* Checkout.extendDueDate
extendDueDate(co, itemId, newDueDate) ==
  LET itemIndex == findIndex({i \in 1..Len(co.items) :
                              co.items[i].gearItemId = itemId \/ co.items[i].gearTypeId = itemId})
  IN IF itemIndex = 0 THEN err([type |-> "item_not_found"])
     ELSE IF isItemFullyReturned(co.items[itemIndex])
       THEN err([type |-> "item_already_returned"])
     ELSE ok([co EXCEPT !.items[itemIndex].dueAt = newDueDate])

\* The test isOverdue and getOverdueItems apply to a line.
isItemOverdue(item, asOf) == ~isItemFullyReturned(item) /\ item.dueAt < asOf

\* Checkout.isOverdue
isOverdue(co, asOf) == \E i \in 1..Len(co.items) : isItemOverdue(co.items[i], asOf)

\* getOverdueItems counting a line due exactly at asOf as overdue.
getOverdueItems_dueAtOrBefore(co, asOf) ==
  SelectSeq(co.items, LAMBDA item : ~isItemFullyReturned(item) /\ item.dueAt <= asOf)

\* Checkout.getOverdueItems
getOverdueItems(co, asOf) ==
  SelectSeq(co.items, LAMBDA item : isItemOverdue(item, asOf))

\* 1000 * 60 * 60 * 24: the milliseconds of a day, dates being in milliseconds
MsPerDay == 1000 * 60 * 60 * 24

\* Math.max over a non-empty set of integers
MathMax(S) == CHOOSE m \in S : \A n \in S : n <= m

\* daysOverdue counting a started day as a whole one.
daysOverdue_startedDays(co, asOf) ==
  LET overdueItems == getOverdueItems(co, asOf)
  IN IF Len(overdueItems) = 0 THEN 0
     ELSE MathMax({0} \cup
            {(asOf - overdueItems[i].dueAt + MsPerDay - 1) \div MsPerDay :
               i \in 1..Len(overdueItems)})

\* Checkout.daysOverdue
daysOverdue(co, asOf) ==
  LET overdueItems == getOverdueItems(co, asOf)
  IN IF Len(overdueItems) = 0 THEN 0
     ELSE LET maxOverdue ==
                MathMax({(asOf - overdueItems[i].dueAt) \div MsPerDay :
                           i \in 1..Len(overdueItems)})
          IN MathMax({0, maxOverdue})

----------------------------------------------------------------------------
(* Specification of the aggregate: any caller, any arguments *)

InputCheckoutConditions == {"GOOD"}
DueDates == {1}
CreateNotes == {<<"a", " ">>}

\* The elements CreateCheckoutInput.items may hold.
LineInputs ==
  [type : {"individual"}, gearItemId : {"g1"}, gearTypeId : {Null},
   quantity : {1}, dueAt : DueDates, conditionAtCheckout : InputCheckoutConditions]
  \cup
  [type : {"bulk"}, gearItemId : {Null}, gearTypeId : GearTypeIds,
   quantity : {0, 1, MaxQty}, dueAt : DueDates, conditionAtCheckout : {Null}]

SeqsUpTo(S, n) == UNION {[1..k -> S] : k \in 0..n}

CreateInputs ==
  [memberId : {"m1"}, staffMemberId : {"s1"},
   items : SeqsUpTo(LineInputs, MaxLines), notes : CreateNotes]

NoResult == [op |-> "none"]

InitAgg ==
  /\ checkout = NoCheckout
  /\ clock = 0
  /\ result = NoResult
  /\ ncalls = 0

InitUCIdle ==
  /\ checkoutDb = <<>>
  /\ gearItemDb = <<>>
  /\ gearTypeDb = <<>>
  /\ events = <<>>
  /\ procs = <<>>
  /\ writes = <<>>

Init == InitAgg /\ InitUCIdle

\* Checkout.create(input, deps)
Create(input) ==
  /\ checkout = NoCheckout
  /\ result = NoResult
  /\ LET res == create(input, "c1", clock)
     IN /\ checkout' = IF res.ok THEN res.value ELSE NoCheckout
        /\ result' = [op |-> "create", input |-> input, res |-> res]
  /\ UNCHANGED <<clock, ncalls>>
  /\ UNCHANGED ucVars

\* checkout.returnItem(itemId, condition, notes, deps); the caller goes on with
\* the returned value, or keeps its checkout when the call fails.
ReturnItem(itemId, condition, notes) ==
  /\ checkout # NoCheckout
  /\ ncalls < MaxCalls
  /\ LET res == returnItem(checkout, itemId, condition, notes, clock)
     IN /\ checkout' = IF res.ok THEN res.value ELSE checkout
        /\ result' = [op |-> "returnItem", id |-> itemId, quantity |-> 1,
                      at |-> clock, res |-> res]
  /\ ncalls' = ncalls + 1
  /\ UNCHANGED clock
  /\ UNCHANGED ucVars

\* checkout.returnBulkItem(typeId, quantity, notes, deps)
ReturnBulkItem(typeId, quantity, notes) ==
  /\ checkout # NoCheckout
  /\ ncalls < MaxCalls
  /\ LET res == returnBulkItem(checkout, typeId, quantity, notes, clock)
     IN /\ checkout' = IF res.ok THEN res.value ELSE checkout
        /\ result' = [op |-> "returnBulkItem", id |-> typeId, quantity |-> quantity,
                      at |-> clock, res |-> res]
  /\ ncalls' = ncalls + 1
  /\ UNCHANGED clock
  /\ UNCHANGED ucVars

\* checkout.extendDueDate(itemId, newDueDate)
ExtendDueDate(itemId, newDueDate) ==
  /\ checkout # NoCheckout
  /\ ncalls < MaxCalls
  /\ LET res == extendDueDate(checkout, itemId, newDueDate)
     IN /\ checkout' = IF res.ok THEN res.value ELSE checkout
        /\ result' = [op |-> "extendDueDate", id |-> itemId, quantity |-> 1,
                      at |-> clock, res |-> res]
  /\ ncalls' = ncalls + 1
  /\ UNCHANGED clock
  /\ UNCHANGED ucVars

\* Time passes between calls; the clock's origin is the checkout's creation.
Tick ==
  /\ checkout # NoCheckout
  /\ clock < MaxTime
  /\ clock' = clock + 1
  /\ UNCHANGED <<checkout, result, ncalls>>
  /\ UNCHANGED ucVars

ReturnQuantities == (-1)..(MaxQty + 1)

\* The notes the callers pass with each quantity: text with a return of one
\* unit, blank notes with a return of none, no notes otherwise.
BulkReturnNotes(quantity) ==
  IF quantity = 1 THEN <<" ", "a">>
  ELSE IF quantity = 0 THEN <<" ">>
  ELSE Undefined

Next ==
  \/ \E input \in CreateInputs : Create(input)
  \/ \E r \in ReturnItemInputs : ReturnItem("g1", r.condition, r.notes)
  \/ ReturnItem(UnknownItemId, "GOOD", Undefined)
  \/ \E t \in GearTypeIds, q \in ReturnQuantities :
       ReturnBulkItem(t, q, BulkReturnNotes(q))
  \/ ReturnBulkItem(UnknownTypeId, 1, Undefined)
  \/ \E id \in {"g1", UnknownItemId} \cup GearTypeIds, d \in {MaxTime + 1} :
       ExtendDueDate(id, d)
  \/ Tick

Spec == Init /\ [][Next]_vars

----------------------------------------------------------------------------
(* Specification of the overdue queries: checkouts with lines due a day      *)
(* apart, returned in part, and asked at times around the due dates.         *)

\* Due dates, in milliseconds: one just after creation, one a day later.
OverdueDueDates == {1, 1 + MsPerDay}

\* The times the queries are asked for: before, at and one millisecond past
\* the first due date, a millisecond short of a day past it, exactly a day past
\* it, and more than two days past it.
AsOfs == {0, 1, 2, MsPerDay, 1 + MsPerDay, 2 * MsPerDay + 2}

OverdueLineInputs ==
  [type : {"individual"}, gearItemId : {"g1"}, gearTypeId : {Null},
   quantity : {1}, dueAt : OverdueDueDates, conditionAtCheckout : {"GOOD"}]
  \cup
  [type : {"bulk"}, gearItemId : {Null}, gearTypeId : GearTypeIds,
   quantity : 1..MaxQty, dueAt : OverdueDueDates, conditionAtCheckout : {Null}]

OverdueCreateInputs ==
  [memberId : {"m1"}, staffMemberId : {"s1"},
   items : SeqsUpTo(OverdueLineInputs, MaxLines) \ {<<>>}, notes : {Undefined}]

\* A checkout as Checkout.create has just made it.
InitOverdue ==
  /\ checkout \in {create(input, "c1", 0).value : input \in OverdueCreateInputs}
  /\ clock = 0
  /\ result = NoResult
  /\ ncalls = 0
  /\ InitUCIdle

\* checkout.isOverdue(asOf)
IsOverdue(asOf) ==
  /\ result' = [op |-> "isOverdue", asOf |-> asOf, res |-> isOverdue(checkout, asOf)]
  /\ UNCHANGED <<checkout, clock, ncalls>>
  /\ UNCHANGED ucVars

\* checkout.getOverdueItems(asOf)
GetOverdueItems(asOf) ==
  /\ result' = [op |-> "getOverdueItems", asOf |-> asOf,
                res |-> getOverdueItems(checkout, asOf)]
  /\ UNCHANGED <<checkout, clock, ncalls>>
  /\ UNCHANGED ucVars

\* checkout.daysOverdue(asOf)
DaysOverdue(asOf) ==
  /\ result' = [op |-> "daysOverdue", asOf |-> asOf, res |-> daysOverdue(checkout, asOf)]
  /\ UNCHANGED <<checkout, clock, ncalls>>
  /\ UNCHANGED ucVars

NextOverdue ==
  \/ ReturnItem("g1", "GOOD", Undefined)
  \/ \E t \in GearTypeIds : ReturnBulkItem(t, 1, Undefined)
  \/ \E asOf \in AsOfs : IsOverdue(asOf)
  \/ \E asOf \in AsOfs : GetOverdueItems(asOf)
  \/ \E asOf \in AsOfs : DaysOverdue(asOf)

SpecOverdue == InitOverdue /\ [][NextOverdue]_vars

----------------------------------------------------------------------------
(* Gear items: domain/entities/gear-item.ts *)

isCheckedOut(gearItem) == gearItem.status = "CHECKED_OUT"

\* markReturned making the item available whatever its condition.
markReturned_alwaysAvailable(gearItem, condition, now) ==
  IF gearItem.status # "CHECKED_OUT" THEN err([type |-> "not_checked_out"])
  ELSE ok([gearItem EXCEPT
             !.status = "AVAILABLE",
             !.condition = condition,
             !.updatedAt = now])

\* GearItem.markReturned
markReturned(gearItem, condition, now) ==
  IF gearItem.status # "CHECKED_OUT" THEN err([type |-> "not_checked_out"])
  ELSE ok([gearItem EXCEPT
             !.status = IF condition = "NEEDS_REPAIR" THEN "MAINTENANCE" ELSE "AVAILABLE",
             !.condition = condition,
             !.updatedAt = now])

\* String.prototype.toUpperCase on the letters item codes use.
UpperChar(c) == IF c = "g" THEN "G" ELSE IF c = "x" THEN "X" ELSE c

toUpperCase(str) == [i \in 1..Len(str) |-> UpperChar(str[i])]

\* GearItem.canCheckout
itemCanCheckout(gearItem) == gearItem.status = "AVAILABLE"

\* The characters /^[A-Z0-9-]+$/ accepts, among those the codes of the model use.
CodeChars == {"G", "X", "0", "1", "2", "3", "4", "5", "6", "7", "8", "9", "-"}

\* GearItem.create
GearItem_create(input, id, now) ==
  LET code == toUpperCase(Trim(input.code))
  IN IF code = <<>> THEN err([type |-> "empty_code"])
     ELSE IF \E i \in 1..Len(code) : code[i] \notin CodeChars
       THEN err([type |-> "invalid_code_format", code |-> code])
     ELSE ok([id |-> id, gearTypeId |-> input.gearTypeId, code |-> code,
              condition |-> IF input.condition = Null THEN "EXCELLENT" ELSE input.condition,
              status |-> "AVAILABLE",
              notes |-> TrimOr(input.notes, NullNotes),
              acquiredAt |-> now, retiredAt |-> NoDate, updatedAt |-> now])

\* GearItem.markCheckedOut
markCheckedOut(gearItem, now) ==
  IF gearItem.status # "AVAILABLE" THEN err([type |-> "not_available"])
  ELSE ok([gearItem EXCEPT !.status = "CHECKED_OUT", !.updatedAt = now])

\* GearItem.sendToMaintenance
sendToMaintenance(gearItem, notes, now) ==
  IF gearItem.status = "MAINTENANCE" THEN err([type |-> "already_in_maintenance"])
  ELSE IF gearItem.status = "CHECKED_OUT" THEN err([type |-> "is_checked_out"])
  ELSE IF gearItem.status = "RETIRED" THEN err([type |-> "is_retired"])
  ELSE ok([gearItem EXCEPT !.status = "MAINTENANCE",
                           !.notes = TrimOr(notes, gearItem.notes),
                           !.updatedAt = now])

\* GearItem.returnFromMaintenance
returnFromMaintenance(gearItem, condition, now) ==
  IF gearItem.status # "MAINTENANCE" THEN err([type |-> "not_in_maintenance"])
  ELSE ok([gearItem EXCEPT !.status = "AVAILABLE",
                           !.condition = condition,
                           !.updatedAt = now])

\* retire without its test for a checked out item.
retire_checkedOutToo(gearItem, now) ==
  IF gearItem.status = "RETIRED" THEN err([type |-> "already_retired"])
  ELSE ok([gearItem EXCEPT !.status = "RETIRED", !.condition = "RETIRED",
                           !.retiredAt = now, !.updatedAt = now])

\* GearItem.retire
retire(gearItem, now) ==
  IF gearItem.status = "CHECKED_OUT" THEN err([type |-> "is_checked_out"])
  ELSE IF gearItem.status = "RETIRED" THEN err([type |-> "already_retired"])
  ELSE ok([gearItem EXCEPT !.status = "RETIRED", !.condition = "RETIRED",
                           !.retiredAt = now, !.updatedAt = now])

\* GearItem.updateCondition
updateCondition(gearItem, condition, now) ==
  IF gearItem.status = "CHECKED_OUT" THEN err([type |-> "is_checked_out"])
  ELSE IF gearItem.status = "RETIRED" THEN err([type |-> "is_retired"])
  ELSE ok([gearItem EXCEPT !.condition = condition, !.updatedAt = now])

\* GearItem.updateNotes
updateNotes(gearItem, notes, now) ==
  [gearItem EXCEPT !.notes = TrimOr(notes, NullNotes), !.updatedAt = now]

----------------------------------------------------------------------------
(* Gear types and members: domain/entities/gear-type.ts *)

NoGearType == [trackingMode |-> "NONE"]

DEFAULT_CHECKOUT_DAYS == 7

\* String.prototype.toLowerCase on the letters gear type names use.
LowerChar(c) == IF c = "A" THEN "a" ELSE IF c = "B" THEN "b" ELSE c

toLowerCase(str) == [i \in 1..Len(str) |-> LowerChar(str[i])]

\* undefined for an omitted optional number
NoNumber == -1000000

\* GearType.create
GearType_create(input, id, now) ==
  LET name == Trim(input.name)
      totalQuantity == IF input.trackingMode = "BULK" THEN input.totalQuantity ELSE 0
  IN IF name = <<>> THEN err([type |-> "empty_name"])
     ELSE IF /\ input.trackingMode = "BULK"
             /\ (input.totalQuantity = NoNumber \/ input.totalQuantity < 0)
       THEN err([type |-> "bulk_requires_quantity"])
     ELSE IF totalQuantity < 0
       THEN err([type |-> "invalid_quantity", value |-> totalQuantity])
     ELSE ok([id |-> id, name |-> name, trackingMode |-> input.trackingMode,
              totalQuantity |-> totalQuantity,
              checkoutDurationDays |->
                IF input.checkoutDurationDays = NoNumber THEN DEFAULT_CHECKOUT_DAYS
                ELSE input.checkoutDurationDays,
              createdAt |-> now, updatedAt |-> now])

\* GearType.updateQuantity
updateQuantity(gearType, newQuantity, now) ==
  IF gearType.trackingMode # "BULK" THEN err([type |-> "not_bulk_tracked"])
  ELSE IF newQuantity < 0 THEN err([type |-> "invalid_quantity", value |-> newQuantity])
  ELSE ok([gearType EXCEPT !.totalQuantity = newQuantity, !.updatedAt = now])

\* GearType.update; an omitted name is Undefined, an omitted number NoNumber.
GearType_update(gearType, updates, now) ==
  LET name == IF updates.name # Undefined THEN Trim(updates.name) ELSE gearType.name
  IN IF name = <<>> THEN err([type |-> "empty_name"])
     ELSE ok([gearType EXCEPT
                !.name = name,
                !.checkoutDurationDays =
                   IF updates.checkoutDurationDays = NoNumber THEN @
                   ELSE updates.checkoutDurationDays,
                !.updatedAt = now])

NoMember == [membershipStatus |-> "NONE"]

\* Member.hasValidWaiver
hasValidWaiver(member, asOf) ==
  IF ~member.waiverStatus.signed THEN FALSE
  ELSE IF member.waiverStatus.expiresAt = NoDate THEN FALSE
  ELSE member.waiverStatus.expiresAt > asOf

\* Member.canCheckout
memberCanCheckout(member, asOf) ==
  member.membershipStatus = "ACTIVE" /\ hasValidWaiver(member, asOf)

----------------------------------------------------------------------------
(* Repositories: infrastructure/repositories/dexie-*.ts *)

\* Checkout.toRecord / Checkout.fromRecord: the items are stored serialized;
\* every modelled field survives the round trip except a falsy (empty)
\* identifier, which comes back as null.
checkoutToRecord(co) == [co EXCEPT !.items = [json |-> co.items]]

checkoutFromRecord(record) ==
  [record EXCEPT
     !.items = [i \in 1..Len(record.items.json) |->
                  [record.items.json[i] EXCEPT
                     !.gearItemId = IF @ = "" THEN Null ELSE @,
                     !.gearTypeId = IF @ = "" THEN Null ELSE @]]]

\* DexieCheckoutRepository.findById
checkoutFindById(db, id) ==
  IF id \in DOMAIN db THEN checkoutFromRecord(db[id]) ELSE NoCheckout

\* DexieCheckoutRepository.findAll({status}) : the stored checkouts with one
\* of the statuses, as a set of ids in key order.
checkoutFindAll(db, statuses) == {id \in DOMAIN db : db[id].status \in statuses}

\* DexieCheckoutRepository.save: db.checkouts.put(checkout.toRecord())
checkoutSave(db, co) ==
  [id \in DOMAIN db \cup {co.id} |-> IF id = co.id THEN checkoutToRecord(co) ELSE db[id]]

NoGearItem == [status |-> "NONE"]

\* DexieGearItemRepository.findById
gearItemFindById(db, id) == IF id \in DOMAIN db THEN db[id] ELSE NoGearItem

\* DexieGearItemRepository.findByCode: where('code').equals(code.toUpperCase()).first()
gearItemFindByCode(db, code) ==
  IF \E id \in DOMAIN db : db[id].code = toUpperCase(code)
    THEN db[CHOOSE id \in DOMAIN db : db[id].code = toUpperCase(code)]
    ELSE NoGearItem

\* DexieGearItemRepository.save: db.gearItems.put(item.toRecord())
gearItemSave(db, gearItem) ==
  [id \in DOMAIN db \cup {gearItem.id} |-> IF id = gearItem.id THEN gearItem ELSE db[id]]

\* DexieGearItemRepository.findByGearTypeId, as the set of the items' ids
gearItemFindByGearTypeId(db, typeId) == {id \in DOMAIN db : db[id].gearTypeId = typeId}

\* DexieGearItemRepository.delete
gearItemDelete(db, id) == [i \in DOMAIN db \ {id} |-> db[i]]

\* DexieGearTypeRepository.findById
gearTypeFindById(db, id) == IF id \in DOMAIN db THEN db[id] ELSE NoGearType

\* DexieGearTypeRepository.save
gearTypeSave(db, gearType) ==
  [id \in DOMAIN db \cup {gearType.id} |-> IF id = gearType.id THEN gearType ELSE db[id]]

\* DexieGearTypeRepository.delete
gearTypeDelete(db, id) == [i \in DOMAIN db \ {id} |-> db[i]]

\* DexieMemberRepository.findById
memberFindById(db, id) == IF id \in DOMAIN db THEN db[id] ELSE NoMember

\* DexieCheckoutRepository.findActiveByMemberId, as the set of the checkouts' ids
checkoutFindActiveByMemberId(db, memberId) ==
  {id \in DOMAIN db : /\ db[id].memberId = memberId
                       /\ db[id].status \in {STATUS_ACTIVE, STATUS_PARTIALLY_RETURNED}}


----------------------------------------------------------------------------
(* Return use cases: application/use-cases/return-use-cases.ts              *)
(* Each execution is cut at its awaits; the code between two awaits is one  *)
(* atomic step.  A save or publish either takes effect or rejects, and a    *)
(* rejection ends the execution with the exception.                        *)

MaxBatch == 2      \* most requests in one returnItems call

Executions == {"e1", "e2"}

IdleExecution ==
  [ pc |-> "idle", op |-> "none", input |-> <<>>,
    initial |-> NoCheckout,      \* the checkout as loaded
    current |-> NoCheckout,      \* currentCheckout / updatedCheckout
    remaining |-> <<>>,          \* requests of input.returns not yet applied
    toUpdate |-> <<>>,           \* gearItemsToUpdate not yet saved
    gearItem |-> NoGearItem,     \* returnItemByCode: the item found by code
    checkoutItems |-> <<>>,      \* createCheckout: the lines resolved so far
    outcome |-> "running",       \* "ok", "err" (Result) or "threw" (rejection)
    error |-> [type |-> "none"] ]

\* One request of ReturnItemsInput.returns.  An omitted gearItemId, gearTypeId
\* or condition is Null; an omitted quantity is 0, which the code's truthiness
\* test treats as it treats undefined.
ReturnRequest(itemId, condition, typeId, quantity) ==
  [gearItemId |-> itemId, condition |-> condition, gearTypeId |-> typeId,
   quantity |-> quantity, notes |-> Undefined]

ReturnRequests ==
  { ReturnRequest("g1", Null, Null, 0),
    ReturnRequest("g2", "NEEDS_REPAIR", Null, 0),
    ReturnRequest(UnknownItemId, "GOOD", Null, 0),
    ReturnRequest(Null, Null, "t1", 1),
    ReturnRequest(Null, Null, "t1", 3) }

\* "c9" is the id of no stored checkout.
ReturnItemsInputs ==
  [checkoutId : {"c1"}, returns : SeqsUpTo(ReturnRequests, MaxBatch)]
  \cup [checkoutId : {"c9", "c2"},
        returns : {<<>>, <<ReturnRequest("g1", Null, Null, 0)>>,
                   <<ReturnRequest(Null, Null, "t1", 1)>>}]

ItemCodes == {<<"G", "1">>, <<"g", "2">>, <<"G", "3">>, <<"X", "9">>}

\* The condition the caller reports with each code.
ConditionReported(code) ==
  IF code = <<"G", "1">> THEN "NEEDS_REPAIR"
  ELSE IF code = <<"g", "2">> THEN "RETIRED"
  ELSE "GOOD"

ReturnItemInputsByCode ==
  {[itemCode |-> code, condition |-> ConditionReported(code), notes |-> Undefined] :
     code \in ItemCodes}

\* The state after createCheckout has lent g1, g2 and two units of t1 to m1.
SeedCheckout ==
  create([memberId |-> "m1", staffMemberId |-> "s1", notes |-> Undefined,
          items |-> << [type |-> "individual", gearItemId |-> "g1", gearTypeId |-> Null,
                        quantity |-> 1, dueAt |-> 1, conditionAtCheckout |-> "GOOD"],
                       [type |-> "individual", gearItemId |-> "g2", gearTypeId |-> Null,
                        quantity |-> 1, dueAt |-> 1, conditionAtCheckout |-> "GOOD"],
                       [type |-> "bulk", gearItemId |-> Null, gearTypeId |-> "t1",
                        quantity |-> 2, dueAt |-> 1, conditionAtCheckout |-> Null] >>],
         "c1", 0).value

SeedGearItem(id, code, status) ==
  [id |-> id, gearTypeId |-> "ti", code |-> code, condition |-> "GOOD",
   status |-> status, notes |-> NullNotes, acquiredAt |-> 0, retiredAt |-> NoDate,
   updatedAt |-> 0]

\* An earlier checkout of g3, returned since and so COMPLETED.
SeedCompletedCheckout ==
  returnItem(
    create([memberId |-> "m1", staffMemberId |-> "s1", notes |-> Undefined,
            items |-> << [type |-> "individual", gearItemId |-> "g3", gearTypeId |-> Null,
                          quantity |-> 1, dueAt |-> 1, conditionAtCheckout |-> "GOOD"] >>],
           "c2", 0).value,
    "g3", "GOOD", Undefined, 0).value

SeedCheckoutDb == checkoutSave(checkoutSave(<<>>, SeedCheckout), SeedCompletedCheckout)

SeedGearItemDb ==
  [id \in {"g1", "g2", "g3"} |->
     CASE id = "g1" -> SeedGearItem("g1", <<"G", "1">>, "CHECKED_OUT")
       [] id = "g2" -> SeedGearItem("g2", <<"G", "2">>, "CHECKED_OUT")
       [] id = "g3" -> SeedGearItem("g3", <<"G", "3">>, "AVAILABLE")]

\* The gear types of the seeded items and lines: one tracked by item, one in
\* bulk, both lent for a day.
SeedGearTypeDb ==
  [id \in {"ti", "t1"} |->
     IF id = "ti"
       THEN [id |-> "ti", name |-> <<"A", "b">>, trackingMode |-> "INDIVIDUAL",
             totalQuantity |-> 0, checkoutDurationDays |-> 1,
             createdAt |-> 0, updatedAt |-> 0]
       ELSE [id |-> "t1", name |-> <<"B">>, trackingMode |-> "BULK",
             totalQuantity |-> 2, checkoutDurationDays |-> 1,
             createdAt |-> 0, updatedAt |-> 0]]

InitUC ==
  /\ checkout = NoCheckout
  /\ clock = 1
  /\ result = NoResult
  /\ ncalls = 0
  /\ checkoutDb = SeedCheckoutDb
  /\ gearItemDb = SeedGearItemDb
  /\ gearTypeDb = SeedGearTypeDb
  /\ events = <<>>
  /\ procs = [e \in Executions |-> IdleExecution]
  /\ writes = [e \in Executions |-> <<>>]

\* The execution returns err(error).
Fail(e, error) ==
  procs' = [procs EXCEPT ![e].pc = "done", ![e].outcome = "err", ![e].error = error]

\* The execution returns err(error) from its first step.
FailAtStart(e, op, input, error) ==
  procs' = [procs EXCEPT ![e].pc = "done", ![e].op = op, ![e].input = input,
                         ![e].outcome = "err", ![e].error = error]

\* An awaited save or publish rejects: the exception leaves the use case.
Throw(e, what) ==
  procs' = [procs EXCEPT ![e].pc = "done", ![e].outcome = "threw",
                         ![e].error = [type |-> what]]

Wrote(e, kind, id) == writes' = [writes EXCEPT ![e] = Append(@, [kind |-> kind, id |-> id])]

\* Where returnItems goes once the request loop has nothing left to apply.
AfterLoop(remaining) == IF remaining = <<>> THEN "ri_saveCheckout" ELSE "ri_loop"

\* RI_Load going on to the loop with a completed checkout.
RI_Load_completedNotRefused(e, input) ==
  /\ procs[e].pc = "idle"
  /\ LET initialCheckout == checkoutFindById(checkoutDb, input.checkoutId)
     IN IF initialCheckout = NoCheckout
          THEN FailAtStart(e, "returnItems", input,
                           [type |-> "checkout_not_found", checkoutId |-> input.checkoutId])
        ELSE procs' = [procs EXCEPT ![e].pc = AfterLoop(input.returns),
                                    ![e].op = "returnItems",
                                    ![e].input = input,
                                    ![e].initial = initialCheckout,
                                    ![e].current = initialCheckout,
                                    ![e].remaining = input.returns]
  /\ UNCHANGED <<checkoutDb, gearItemDb, gearTypeDb, events, writes>>
  /\ UNCHANGED aggVars

\* returnItems, up to the loop: load the checkout, refuse a missing or
\* completed one.
RI_Load(e, input) ==
  /\ procs[e].pc = "idle"
  /\ LET initialCheckout == checkoutFindById(checkoutDb, input.checkoutId)
     IN IF initialCheckout = NoCheckout
          THEN FailAtStart(e, "returnItems", input,
                           [type |-> "checkout_not_found", checkoutId |-> input.checkoutId])
        ELSE IF initialCheckout.status = STATUS_COMPLETED
          THEN FailAtStart(e, "returnItems", input, [type |-> "checkout_already_completed"])
        ELSE procs' = [procs EXCEPT ![e].pc = AfterLoop(input.returns),
                                    ![e].op = "returnItems",
                                    ![e].input = input,
                                    ![e].initial = initialCheckout,
                                    ![e].current = initialCheckout,
                                    ![e].remaining = input.returns]
  /\ UNCHANGED <<checkoutDb, gearItemDb, gearTypeDb, events, writes>>
  /\ UNCHANGED aggVars

\* applyReturnRequest going on with the batch when a request fails.
applyReturnRequest_bulkFailureSkipped(currentCheckout, returnReq, itemDb, now) ==
  IF returnReq.gearItemId # Null
    THEN LET condition == IF returnReq.condition = Null THEN "GOOD"
                          ELSE returnReq.condition
             returnResult == returnItem(currentCheckout, returnReq.gearItemId,
                                        condition, returnReq.notes, now)
             gearItem == gearItemFindById(itemDb, returnReq.gearItemId)
             itemResult == markReturned(gearItem, condition, now)
         IN IF ~returnResult.ok
              THEN IF returnResult.error.type = "item_not_found"
                     THEN err([type |-> "item_not_in_checkout",
                               itemId |-> returnReq.gearItemId])
                   ELSE IF returnResult.error.type = "item_already_returned"
                     THEN err([type |-> "item_already_returned",
                               itemId |-> returnReq.gearItemId])
                   ELSE err([type |-> "checkout_already_completed"])
            ELSE ok([checkout |-> returnResult.value,
                     updates |-> IF gearItem # NoGearItem /\ itemResult.ok
                                   THEN <<itemResult.value>> ELSE <<>>])
  ELSE IF returnReq.gearTypeId # Null /\ returnReq.quantity # 0
    THEN LET returnResult == returnBulkItem(currentCheckout, returnReq.gearTypeId,
                                            returnReq.quantity, returnReq.notes, now)
         IN IF ~returnResult.ok
              THEN ok([checkout |-> currentCheckout, updates |-> <<>>])
            ELSE ok([checkout |-> returnResult.value, updates |-> <<>>])
  ELSE ok([checkout |-> currentCheckout, updates |-> <<>>])

\* The body of the returnItems loop for one request, on the running copy:
\* err(error) when the request fails, else the new running copy and the gear
\* item update to queue (none for a bulk return, for a gear item that is not
\* stored or not checked out, and for a request that names nothing).
applyReturnRequest(currentCheckout, returnReq, itemDb, now) ==
  IF returnReq.gearItemId # Null
    THEN LET condition == IF returnReq.condition = Null THEN "GOOD"
                          ELSE returnReq.condition
             returnResult == returnItem(currentCheckout, returnReq.gearItemId,
                                        condition, returnReq.notes, now)
             gearItem == gearItemFindById(itemDb, returnReq.gearItemId)
             itemResult == markReturned(gearItem, condition, now)
         IN IF ~returnResult.ok
              THEN IF returnResult.error.type = "item_not_found"
                     THEN err([type |-> "item_not_in_checkout",
                               itemId |-> returnReq.gearItemId])
                   ELSE IF returnResult.error.type = "item_already_returned"
                     THEN err([type |-> "item_already_returned",
                               itemId |-> returnReq.gearItemId])
                   ELSE err([type |-> "checkout_already_completed"])
            ELSE ok([checkout |-> returnResult.value,
                     updates |-> IF gearItem # NoGearItem /\ itemResult.ok
                                   THEN <<itemResult.value>> ELSE <<>>])
  ELSE IF returnReq.gearTypeId # Null /\ returnReq.quantity # 0
    THEN LET returnResult == returnBulkItem(currentCheckout, returnReq.gearTypeId,
                                            returnReq.quantity, returnReq.notes, now)
         IN IF ~returnResult.ok
              THEN err([type |-> "item_not_in_checkout", itemId |-> returnReq.gearTypeId])
            ELSE ok([checkout |-> returnResult.value, updates |-> <<>>])
  ELSE ok([checkout |-> currentCheckout, updates |-> <<>>])

\* RI_Apply applying every request to the checkout as loaded.
RI_Apply_onLoadedCopy(e) ==
  /\ procs[e].pc = "ri_loop"
  /\ LET rest == Tail(procs[e].remaining)
         applied == applyReturnRequest(procs[e].initial, Head(procs[e].remaining),
                                       gearItemDb, clock)
     IN IF ~applied.ok THEN Fail(e, applied.error)
        ELSE procs' = [procs EXCEPT ![e].pc = AfterLoop(rest),
                                    ![e].current = applied.value.checkout,
                                    ![e].remaining = rest,
                                    ![e].toUpdate = @ \o applied.value.updates]
  /\ UNCHANGED <<checkoutDb, gearItemDb, gearTypeDb, events, writes>>
  /\ UNCHANGED aggVars

\* returnItems, one turn of the loop: apply the next request to the running
\* copy; abort on its failure, else go on with the rest.
RI_Apply(e) ==
  /\ procs[e].pc = "ri_loop"
  /\ LET rest == Tail(procs[e].remaining)
         applied == applyReturnRequest(procs[e].current, Head(procs[e].remaining),
                                       gearItemDb, clock)
     IN IF ~applied.ok THEN Fail(e, applied.error)
        ELSE procs' = [procs EXCEPT ![e].pc = AfterLoop(rest),
                                    ![e].current = applied.value.checkout,
                                    ![e].remaining = rest,
                                    ![e].toUpdate = @ \o applied.value.updates]
  /\ UNCHANGED <<checkoutDb, gearItemDb, gearTypeDb, events, writes>>
  /\ UNCHANGED aggVars

\* returnItems: await deps.checkoutRepo.save(currentCheckout)
RI_SaveCheckout(e) ==
  /\ procs[e].pc = "ri_saveCheckout"
  /\ checkoutDb' = checkoutSave(checkoutDb, procs[e].current)
  /\ Wrote(e, "checkout", procs[e].current.id)
  /\ procs' = [procs EXCEPT ![e].pc = IF procs[e].toUpdate = <<>> THEN "ri_publish"
                                      ELSE "ri_saveItems"]
  /\ UNCHANGED <<gearItemDb, gearTypeDb, events>>
  /\ UNCHANGED aggVars

RI_SaveCheckoutRejects(e) ==
  /\ procs[e].pc = "ri_saveCheckout"
  /\ Throw(e, "checkout_save_rejected")
  /\ UNCHANGED <<checkoutDb, gearItemDb, gearTypeDb, events, writes>>
  /\ UNCHANGED aggVars

\* returnItems: one turn of  for (item of gearItemsToUpdate) await gearItemRepo.save(item)
RI_SaveGearItem(e) ==
  /\ procs[e].pc = "ri_saveItems"
  /\ gearItemDb' = gearItemSave(gearItemDb, Head(procs[e].toUpdate))
  /\ Wrote(e, "gearItem", Head(procs[e].toUpdate).id)
  /\ procs' = [procs EXCEPT ![e].toUpdate = Tail(@),
                            ![e].pc = IF Tail(procs[e].toUpdate) = <<>> THEN "ri_publish"
                                      ELSE "ri_saveItems"]
  /\ UNCHANGED <<checkoutDb, gearTypeDb, events>>
  /\ UNCHANGED aggVars

RI_SaveGearItemRejects(e) ==
  /\ procs[e].pc = "ri_saveItems"
  /\ Throw(e, "gear_item_save_rejected")
  /\ UNCHANGED <<checkoutDb, gearItemDb, gearTypeDb, events, writes>>
  /\ UNCHANGED aggVars

\* returnItems: find the member, publish ItemsReturned, return ok.
RI_Publish(e) ==
  /\ procs[e].pc = "ri_publish"
  /\ events' = Append(events,
       [type |-> "ItemsReturned", aggregateId |-> procs[e].current.id, occurredAt |-> clock,
        payload |-> [checkoutId |-> procs[e].current.id,
                     returnCount |-> Len(procs[e].input.returns),
                     checkoutComplete |-> procs[e].current.status = STATUS_COMPLETED]])
  /\ Wrote(e, "event", procs[e].initial.id)
  /\ procs' = [procs EXCEPT ![e].pc = "done", ![e].outcome = "ok"]
  /\ UNCHANGED <<checkoutDb, gearItemDb, gearTypeDb>>
  /\ UNCHANGED aggVars

RI_PublishRejects(e) ==
  /\ procs[e].pc = "ri_publish"
  /\ Throw(e, "publish_rejected")
  /\ UNCHANGED <<checkoutDb, gearItemDb, gearTypeDb, events, writes>>
  /\ UNCHANGED aggVars


\* returnItemByCode, first step: find the gear item by its code.
RC_FindItem(e, input) ==
  /\ procs[e].pc = "idle"
  /\ LET gearItem == gearItemFindByCode(gearItemDb, input.itemCode)
     IN IF gearItem = NoGearItem
          THEN FailAtStart(e, "returnItemByCode", input,
                           [type |-> "item_not_found", code |-> input.itemCode])
        ELSE IF ~isCheckedOut(gearItem)
          THEN FailAtStart(e, "returnItemByCode", input,
                           [type |-> "item_not_checked_out", code |-> input.itemCode])
        ELSE procs' = [procs EXCEPT ![e].pc = "rc_findType",
                                    ![e].op = "returnItemByCode",
                                    ![e].input = input,
                                    ![e].gearItem = gearItem]
  /\ UNCHANGED <<checkoutDb, gearItemDb, gearTypeDb, events, writes>>
  /\ UNCHANGED aggVars

\* returnItemByCode: find the gear type of the item.
RC_FindType(e) ==
  /\ procs[e].pc = "rc_findType"
  /\ IF procs[e].gearItem.gearTypeId \notin DOMAIN gearTypeDb
       THEN Fail(e, [type |-> "item_not_found", code |-> procs[e].input.itemCode])
       ELSE procs' = [procs EXCEPT ![e].pc = "rc_findCheckout"]
  /\ UNCHANGED <<checkoutDb, gearItemDb, gearTypeDb, events, writes>>
  /\ UNCHANGED aggVars

\* The active checkouts with an unreturned line for the gear item.
CheckoutsHolding(db, itemId) ==
  { id \in checkoutFindAll(db, {STATUS_ACTIVE, STATUS_PARTIALLY_RETURNED}) :
      \E i \in 1..Len(checkoutFromRecord(db[id]).items) :
        /\ checkoutFromRecord(db[id]).items[i].gearItemId = itemId
        /\ checkoutFromRecord(db[id]).items[i].returnedAt = NoDate }

\* The rest of returnItemByCode up to its saves, for the checkout it found.
RC_Process(e, found) ==
  LET gearItem == procs[e].gearItem
      input == procs[e].input
      returnResult == returnItem(found, gearItem.id, input.condition, input.notes, clock)
      itemReturnResult == markReturned(gearItem, input.condition, clock)
  IN IF ~returnResult.ok THEN Fail(e, [type |-> "checkout_not_found"])
     ELSE IF ~itemReturnResult.ok
       THEN Fail(e, [type |-> "item_not_checked_out", code |-> input.itemCode])
     ELSE procs' = [procs EXCEPT ![e].pc = "rc_saveCheckout",
                                 ![e].initial = found,
                                 ![e].current = returnResult.value,
                                 ![e].toUpdate = <<itemReturnResult.value>>]

\* RC_FindCheckout reporting a missing checkout as an item that is not checked
\* out.
RC_FindCheckout_notCheckedOut(e) ==
  /\ procs[e].pc = "rc_findCheckout"
  /\ LET candidates == CheckoutsHolding(checkoutDb, procs[e].gearItem.id)
     IN IF candidates = {}
          THEN Fail(e, [type |-> "item_not_checked_out", code |-> procs[e].input.itemCode])
          ELSE \E id \in candidates : RC_Process(e, checkoutFromRecord(checkoutDb[id]))
  /\ UNCHANGED <<checkoutDb, gearItemDb, gearTypeDb, events, writes>>
  /\ UNCHANGED aggVars

\* returnItemByCode: find the active checkout holding the item, return the
\* item on it and mark the gear item returned.
RC_FindCheckout(e) ==
  /\ procs[e].pc = "rc_findCheckout"
  /\ LET candidates == CheckoutsHolding(checkoutDb, procs[e].gearItem.id)
     IN IF candidates = {}
          THEN Fail(e, [type |-> "checkout_not_found"])
          ELSE \E id \in candidates : RC_Process(e, checkoutFromRecord(checkoutDb[id]))
  /\ UNCHANGED <<checkoutDb, gearItemDb, gearTypeDb, events, writes>>
  /\ UNCHANGED aggVars

\* returnItemByCode: await deps.checkoutRepo.save(updatedCheckout)
RC_SaveCheckout(e) ==
  /\ procs[e].pc = "rc_saveCheckout"
  /\ checkoutDb' = checkoutSave(checkoutDb, procs[e].current)
  /\ Wrote(e, "checkout", procs[e].current.id)
  /\ procs' = [procs EXCEPT ![e].pc = "rc_saveItem"]
  /\ UNCHANGED <<gearItemDb, gearTypeDb, events>>
  /\ UNCHANGED aggVars

RC_SaveCheckoutRejects(e) ==
  /\ procs[e].pc = "rc_saveCheckout"
  /\ Throw(e, "checkout_save_rejected")
  /\ UNCHANGED <<checkoutDb, gearItemDb, gearTypeDb, events, writes>>
  /\ UNCHANGED aggVars

\* returnItemByCode: await deps.gearItemRepo.save(updatedItem)
RC_SaveGearItem(e) ==
  /\ procs[e].pc = "rc_saveItem"
  /\ gearItemDb' = gearItemSave(gearItemDb, Head(procs[e].toUpdate))
  /\ Wrote(e, "gearItem", Head(procs[e].toUpdate).id)
  /\ procs' = [procs EXCEPT ![e].pc = "rc_publish", ![e].toUpdate = Tail(@)]
  /\ UNCHANGED <<checkoutDb, gearTypeDb, events>>
  /\ UNCHANGED aggVars

RC_SaveGearItemRejects(e) ==
  /\ procs[e].pc = "rc_saveItem"
  /\ Throw(e, "gear_item_save_rejected")
  /\ UNCHANGED <<checkoutDb, gearItemDb, gearTypeDb, events, writes>>
  /\ UNCHANGED aggVars

\* returnItemByCode: find the member, publish ItemReturned, return ok.
RC_Publish(e) ==
  /\ procs[e].pc = "rc_publish"
  /\ events' = Append(events,
       [type |-> "ItemReturned", aggregateId |-> procs[e].initial.id, occurredAt |-> clock,
        payload |-> [checkoutId |-> procs[e].initial.id,
                     gearItemId |-> procs[e].gearItem.id,
                     itemCode |-> procs[e].input.itemCode,
                     condition |-> procs[e].input.condition,
                     checkoutComplete |-> procs[e].current.status = STATUS_COMPLETED]])
  /\ Wrote(e, "event", procs[e].initial.id)
  /\ procs' = [procs EXCEPT ![e].pc = "done", ![e].outcome = "ok"]
  /\ UNCHANGED <<checkoutDb, gearItemDb, gearTypeDb>>
  /\ UNCHANGED aggVars

RC_PublishRejects(e) ==
  /\ procs[e].pc = "rc_publish"
  /\ Throw(e, "publish_rejected")
  /\ UNCHANGED <<checkoutDb, gearItemDb, gearTypeDb, events, writes>>
  /\ UNCHANGED aggVars

NextUC ==
  \/ \E e \in Executions : \E input \in ReturnItemsInputs : RI_Load(e, input)
  \/ \E e \in Executions : RI_Apply(e)
  \/ \E e \in Executions : RI_SaveCheckout(e)
  \/ \E e \in Executions : RI_SaveCheckoutRejects(e)
  \/ \E e \in Executions : RI_SaveGearItem(e)
  \/ \E e \in Executions : RI_SaveGearItemRejects(e)
  \/ \E e \in Executions : RI_Publish(e)
  \/ \E e \in Executions : RI_PublishRejects(e)
  \/ \E e \in Executions : \E input \in ReturnItemInputsByCode : RC_FindItem(e, input)
  \/ \E e \in Executions : RC_FindType(e)
  \/ \E e \in Executions : RC_FindCheckout(e)
  \/ \E e \in Executions : RC_SaveCheckout(e)
  \/ \E e \in Executions : RC_SaveCheckoutRejects(e)
  \/ \E e \in Executions : RC_SaveGearItem(e)
  \/ \E e \in Executions : RC_SaveGearItemRejects(e)
  \/ \E e \in Executions : RC_Publish(e)
  \/ \E e \in Executions : RC_PublishRejects(e)

SpecUC == InitUC /\ [][NextUC]_vars

----------------------------------------------------------------------------
(* Checkout creation, eligibility and inventory use cases:                  *)
(* application/use-cases/return-use-cases.ts, member-use-cases.ts and       *)
(* inventory-use-cases.ts.  The calls are made one after the other, each    *)
(* run to its end before the next starts.                                   *)

MaxSysCalls == 2   \* most use case calls made one after the other

\* The members on file (no modelled use case changes a member): m1 in good
\* standing, m2 suspended, m3 without a signed waiver, m4 with a waiver that
\* expired at time 1.
MemberDb ==
  [id \in {"m1", "m2", "m3", "m4"} |->
     [id |-> id,
      membershipStatus |-> IF id = "m2" THEN "SUSPENDED" ELSE "ACTIVE",
      waiverStatus |-> [signed |-> id # "m3",
                        expiresAt |-> IF id = "m3" THEN NoDate
                                      ELSE IF id = "m4" THEN 1 ELSE 9 * MsPerDay]]]

\* idGenerator.generate(): an identifier no earlier call was given.
FreshIds == <<"n1", "n2", "n3", "n4", "n5", "n6">>

NextId == FreshIds[ncalls + 1]

\* const dueAt = new Date(now); dueAt.setDate(dueAt.getDate() + days)
addDays(now, days) == now + days * MsPerDay

\* One element of CreateCheckoutInput.items.  An omitted itemCode is Undefined,
\* an omitted gearTypeId Null, an omitted quantity 0.
CheckoutItemRequest(itemCode, typeId, quantity) ==
  [itemCode |-> itemCode, gearTypeId |-> typeId, quantity |-> quantity]

\* The reasons createCheckout gives for refusing a member.
IneligibleReasons(member, now) ==
  (IF member.membershipStatus # "ACTIVE"
     THEN << <<"Membership status: ", member.membershipStatus>> >> ELSE <<>>)
  \o (IF ~hasValidWaiver(member, now) THEN << <<"Waiver not valid">> >> ELSE <<>>)

\* createCheckout, up to the loop: find the member, refuse one who cannot
\* check out, refuse an empty list of items.
CC_Load(e, input) ==
  /\ procs[e].pc = "idle"
  /\ LET member == memberFindById(MemberDb, input.memberId)
     IN IF member = NoMember
          THEN FailAtStart(e, "createCheckout", input,
                           [type |-> "member_not_found", memberId |-> input.memberId])
        ELSE IF ~memberCanCheckout(member, clock)
          THEN FailAtStart(e, "createCheckout", input,
                           [type |-> "member_not_eligible",
                            reasons |-> IneligibleReasons(member, clock)])
        ELSE IF Len(input.items) = 0
          THEN FailAtStart(e, "createCheckout", input, [type |-> "no_items"])
        ELSE procs' = [procs EXCEPT ![e].pc = "cc_loop",
                                    ![e].op = "createCheckout",
                                    ![e].input = input,
                                    ![e].remaining = input.items]
  /\ UNCHANGED <<checkoutDb, gearItemDb, gearTypeDb, events, writes>>
  /\ UNCHANGED aggVars

\* The body of the createCheckout loop for one requested item: err(error)
\* when it cannot be lent, else the line to create and the gear item update to
\* queue (no line for a request that names neither a code nor a type with a
\* quantity).
resolveItemRequest(itemReq, itemDb, typeDb, now) ==
  IF itemReq.itemCode # Undefined /\ itemReq.itemCode # <<>>
    THEN LET gearItem == gearItemFindByCode(itemDb, itemReq.itemCode)
             gearType == gearTypeFindById(typeDb, gearItem.gearTypeId)
             checkedOutResult == markCheckedOut(gearItem, now)
         IN IF gearItem = NoGearItem
              THEN err([type |-> "gear_item_not_found", code |-> itemReq.itemCode])
            ELSE IF ~itemCanCheckout(gearItem)
              THEN err([type |-> "gear_item_not_available", code |-> itemReq.itemCode,
                        status |-> gearItem.status])
            ELSE IF gearType = NoGearType
              THEN err([type |-> "gear_type_not_found", gearTypeId |-> gearItem.gearTypeId])
            ELSE ok([lines |-> << [type |-> "individual", gearItemId |-> gearItem.id,
                                   gearTypeId |-> Null, quantity |-> 1,
                                   dueAt |-> addDays(now, gearType.checkoutDurationDays),
                                   conditionAtCheckout |-> gearItem.condition] >>,
                     updates |-> IF checkedOutResult.ok THEN <<checkedOutResult.value>>
                                 ELSE <<>>])
  ELSE IF itemReq.gearTypeId # Null /\ itemReq.quantity # 0
    THEN LET gearType == gearTypeFindById(typeDb, itemReq.gearTypeId)
         IN IF gearType = NoGearType
              THEN err([type |-> "gear_type_not_found", gearTypeId |-> itemReq.gearTypeId])
            ELSE IF gearType.trackingMode # "BULK"
              THEN err([type |-> "gear_type_not_found", gearTypeId |-> itemReq.gearTypeId])
            ELSE IF itemReq.quantity > gearType.totalQuantity
              THEN err([type |-> "insufficient_quantity", gearTypeId |-> itemReq.gearTypeId,
                        requested |-> itemReq.quantity,
                        available |-> gearType.totalQuantity])
            ELSE ok([lines |-> << [type |-> "bulk", gearItemId |-> Null,
                                   gearTypeId |-> gearType.id,
                                   quantity |-> itemReq.quantity,
                                   dueAt |-> addDays(now, gearType.checkoutDurationDays),
                                   conditionAtCheckout |-> Null] >>,
                     updates |-> <<>>])
  ELSE ok([lines |-> <<>>, updates |-> <<>>])

\* CC_Resolve saving each gear item as soon as it is marked checked out.
CC_Resolve_savesAsItGoes(e) ==
  /\ procs[e].pc = "cc_loop"
  /\ LET rest == Tail(procs[e].remaining)
         resolved == resolveItemRequest(Head(procs[e].remaining), gearItemDb, gearTypeDb,
                                        clock)
     IN IF ~resolved.ok THEN Fail(e, resolved.error) /\ UNCHANGED <<gearItemDb, writes>>
        ELSE /\ procs' = [procs EXCEPT
                            ![e].pc = IF rest = <<>> THEN "cc_create" ELSE "cc_loop",
                            ![e].remaining = rest,
                            ![e].checkoutItems = @ \o resolved.value.lines]
             /\ IF resolved.value.updates = <<>> THEN UNCHANGED <<gearItemDb, writes>>
                ELSE /\ gearItemDb' = gearItemSave(gearItemDb, resolved.value.updates[1])
                     /\ Wrote(e, "gearItem", resolved.value.updates[1].id)
  /\ UNCHANGED <<checkoutDb, gearTypeDb, events>>
  /\ UNCHANGED aggVars

\* createCheckout, one turn of the loop over input.items.
CC_Resolve(e) ==
  /\ procs[e].pc = "cc_loop"
  /\ LET rest == Tail(procs[e].remaining)
         resolved == resolveItemRequest(Head(procs[e].remaining), gearItemDb, gearTypeDb,
                                        clock)
     IN IF ~resolved.ok THEN Fail(e, resolved.error)
        ELSE procs' = [procs EXCEPT ![e].pc = IF rest = <<>> THEN "cc_create" ELSE "cc_loop",
                                    ![e].remaining = rest,
                                    ![e].checkoutItems = @ \o resolved.value.lines,
                                    ![e].toUpdate = @ \o resolved.value.updates]
  /\ UNCHANGED <<checkoutDb, gearItemDb, gearTypeDb, events, writes>>
  /\ UNCHANGED aggVars

\* Checkout.create as createCheckout calls it.
CreatedCheckout(e) ==
  create([memberId |-> procs[e].input.memberId,
          staffMemberId |-> procs[e].input.staffMemberId,
          items |-> procs[e].checkoutItems,
          notes |-> procs[e].input.notes],
         NextId, clock)

\* createCheckout: Checkout.create, then await deps.checkoutRepo.save(checkout)
CC_SaveCheckout(e) ==
  /\ procs[e].pc = "cc_create"
  /\ IF ~CreatedCheckout(e).ok
       THEN /\ Fail(e, [type |-> "no_items"])
            /\ UNCHANGED <<checkoutDb, writes>>
       ELSE /\ checkoutDb' = checkoutSave(checkoutDb, CreatedCheckout(e).value)
            /\ Wrote(e, "checkout", CreatedCheckout(e).value.id)
            /\ procs' = [procs EXCEPT ![e].current = CreatedCheckout(e).value,
                                      ![e].pc = IF procs[e].toUpdate = <<>> THEN "cc_publish"
                                                ELSE "cc_saveItems"]
  /\ UNCHANGED <<gearItemDb, gearTypeDb, events>>
  /\ UNCHANGED aggVars

CC_SaveCheckoutRejects(e) ==
  /\ procs[e].pc = "cc_create"
  /\ CreatedCheckout(e).ok
  /\ Throw(e, "checkout_save_rejected")
  /\ UNCHANGED <<checkoutDb, gearItemDb, gearTypeDb, events, writes>>
  /\ UNCHANGED aggVars

\* createCheckout: one turn of  for (item of gearItemsToUpdate) await gearItemRepo.save(item)
CC_SaveGearItem(e) ==
  /\ procs[e].pc = "cc_saveItems"
  /\ gearItemDb' = gearItemSave(gearItemDb, Head(procs[e].toUpdate))
  /\ Wrote(e, "gearItem", Head(procs[e].toUpdate).id)
  /\ procs' = [procs EXCEPT ![e].toUpdate = Tail(@),
                            ![e].pc = IF Tail(procs[e].toUpdate) = <<>> THEN "cc_publish"
                                      ELSE "cc_saveItems"]
  /\ UNCHANGED <<checkoutDb, gearTypeDb, events>>
  /\ UNCHANGED aggVars

CC_SaveGearItemRejects(e) ==
  /\ procs[e].pc = "cc_saveItems"
  /\ Throw(e, "gear_item_save_rejected")
  /\ UNCHANGED <<checkoutDb, gearItemDb, gearTypeDb, events, writes>>
  /\ UNCHANGED aggVars

\* createCheckout: publish CheckoutCreated, return ok.
CC_Publish(e) ==
  /\ procs[e].pc = "cc_publish"
  /\ events' = Append(events,
       [type |-> "CheckoutCreated", aggregateId |-> procs[e].current.id,
        occurredAt |-> clock,
        payload |-> [checkoutId |-> procs[e].current.id,
                     memberId |-> procs[e].input.memberId,
                     itemCount |-> Len(procs[e].current.items)]])
  /\ Wrote(e, "event", procs[e].current.id)
  /\ procs' = [procs EXCEPT ![e].pc = "done", ![e].outcome = "ok"]
  /\ UNCHANGED <<checkoutDb, gearItemDb, gearTypeDb>>
  /\ UNCHANGED aggVars

\* CC_PublishRejects taking the new checkout out of the store again.
CC_PublishRejects_deletesCheckout(e) ==
  /\ procs[e].pc = "cc_publish"
  /\ Throw(e, "publish_rejected")
  /\ checkoutDb' = [id \in DOMAIN checkoutDb \ {procs[e].current.id} |-> checkoutDb[id]]
  /\ UNCHANGED <<gearItemDb, gearTypeDb, events, writes>>
  /\ UNCHANGED aggVars

\* createCheckout: eventPublisher.publish rejects.
CC_PublishRejects(e) ==
  /\ procs[e].pc = "cc_publish"
  /\ Throw(e, "publish_rejected")
  /\ UNCHANGED <<checkoutDb, gearItemDb, gearTypeDb, events, writes>>
  /\ UNCHANGED aggVars

\* The number of overdue lines of the checkouts, added up as reduce does.
RECURSIVE OverdueCount(_, _, _)
OverdueCount(db, ids, now) ==
  IF ids = {} THEN 0
  ELSE LET id == CHOOSE i \in ids : TRUE
       IN Len(getOverdueItems(checkoutFromRecord(db[id]), now))
          + OverdueCount(db, ids \ {id}, now)

\* getCheckoutEligibility
getCheckoutEligibility(memberDb, coDb, memberId, now) ==
  LET member == memberFindById(memberDb, memberId)
      activeCheckouts == checkoutFindActiveByMemberId(coDb, memberId)
      overdueCheckouts == {id \in activeCheckouts :
                             isOverdue(checkoutFromRecord(coDb[id]), now)}
      reasons ==
        (IF member.membershipStatus # "ACTIVE"
           THEN <<[type |-> "membership_not_active", status |-> member.membershipStatus]>>
           ELSE <<>>)
        \o (IF ~member.waiverStatus.signed THEN <<[type |-> "waiver_not_signed"]>>
            ELSE IF ~hasValidWaiver(member, now)
              THEN <<[type |-> "waiver_expired",
                      expiredAt |-> member.waiverStatus.expiresAt]>>
            ELSE <<>>)
        \o (IF overdueCheckouts # {}
              THEN <<[type |-> "has_overdue_items",
                      count |-> OverdueCount(coDb, overdueCheckouts, now)]>>
            ELSE <<>>)
  IN IF member = NoMember
       THEN [eligible |-> FALSE, member |-> NoMember,
             reasons |-> <<[type |-> "member_not_found"]>>]
     ELSE IF Len(reasons) > 0
       THEN [eligible |-> FALSE, member |-> member, reasons |-> reasons]
     ELSE [eligible |-> TRUE, member |-> member, reasons |-> <<>>]


\* createGearType testing the name only after GearType.create accepted the
\* input.
createGearType_validatesFirst(typeDb, input, id, now) ==
  LET nameNormalized == toLowerCase(Trim(input.name))
      created == GearType_create(input, id, now)
  IN IF ~created.ok THEN [result |-> created, gearTypeDb |-> typeDb]
     ELSE IF \E t \in DOMAIN typeDb : toLowerCase(typeDb[t].name) = nameNormalized
       THEN [result |-> err([type |-> "duplicate_name", name |-> Trim(input.name)]),
             gearTypeDb |-> typeDb]
     ELSE [result |-> created, gearTypeDb |-> gearTypeSave(typeDb, created.value)]

\* createGearType: the Result it returns and the gear types stored after it.
createGearType(typeDb, input, id, now) ==
  LET nameNormalized == toLowerCase(Trim(input.name))
      created == GearType_create(input, id, now)
  IN IF \E t \in DOMAIN typeDb : toLowerCase(typeDb[t].name) = nameNormalized
       THEN [result |-> err([type |-> "duplicate_name", name |-> Trim(input.name)]),
             gearTypeDb |-> typeDb]
     ELSE IF ~created.ok THEN [result |-> created, gearTypeDb |-> typeDb]
     ELSE [result |-> created, gearTypeDb |-> gearTypeSave(typeDb, created.value)]

\* The items deleted one after the other.
RECURSIVE DeleteAll(_, _)
DeleteAll(itemDb, ids) ==
  IF ids = {} THEN itemDb
  ELSE LET id == CHOOSE i \in ids : TRUE
       IN DeleteAll(gearItemDelete(itemDb, id), ids \ {id})

\* deleteGearType deleting the items that are not checked out and the type.
deleteGearType_leavesCheckedOut(typeDb, itemDb, typeId) ==
  LET gearType == gearTypeFindById(typeDb, typeId)
      items == gearItemFindByGearTypeId(itemDb, typeId)
      checkedOutItems == {id \in items : itemDb[id].status = "CHECKED_OUT"}
  IN IF gearType = NoGearType
       THEN [result |-> err([type |-> "not_found", id |-> typeId]),
             gearTypeDb |-> typeDb, gearItemDb |-> itemDb]
     ELSE [result |-> ok("void"),
           gearTypeDb |-> gearTypeDelete(typeDb, gearType.id),
           gearItemDb |-> DeleteAll(itemDb, items \ checkedOutItems)]

\* deleteGearType: the Result it returns and what is stored after it.
deleteGearType(typeDb, itemDb, typeId) ==
  LET gearType == gearTypeFindById(typeDb, typeId)
      items == gearItemFindByGearTypeId(itemDb, typeId)
      checkedOutItems == {id \in items : itemDb[id].status = "CHECKED_OUT"}
  IN IF gearType = NoGearType
       THEN [result |-> err([type |-> "not_found", id |-> typeId]),
             gearTypeDb |-> typeDb, gearItemDb |-> itemDb]
     ELSE IF Cardinality(checkedOutItems) > 0
       THEN [result |-> err([type |-> "has_checked_out_items",
                             count |-> Cardinality(checkedOutItems)]),
             gearTypeDb |-> typeDb, gearItemDb |-> itemDb]
     ELSE [result |-> ok("void"),
           gearTypeDb |-> gearTypeDelete(typeDb, gearType.id),
           gearItemDb |-> DeleteAll(itemDb, items)]

\* addGearItem looking for the code as typed, neither trimmed nor upper-cased.
addGearItem_codeAsTyped(typeDb, itemDb, input, id, now) ==
  LET gearType == gearTypeFindById(typeDb, input.gearTypeId)
      created == GearItem_create(input, id, now)
  IN IF gearType = NoGearType
       THEN [result |-> err([type |-> "gear_type_not_found", id |-> input.gearTypeId]),
             gearItemDb |-> itemDb]
     ELSE IF gearType.trackingMode # "INDIVIDUAL"
       THEN [result |-> err([type |-> "not_individual_tracked"]), gearItemDb |-> itemDb]
     ELSE IF \E i \in DOMAIN itemDb : itemDb[i].code = input.code
       THEN [result |-> err([type |-> "duplicate_code", code |-> input.code]),
             gearItemDb |-> itemDb]
     ELSE IF ~created.ok THEN [result |-> created, gearItemDb |-> itemDb]
     ELSE [result |-> created, gearItemDb |-> gearItemSave(itemDb, created.value)]

\* addGearItem: the Result it returns and the gear items stored after it.
addGearItem(typeDb, itemDb, input, id, now) ==
  LET gearType == gearTypeFindById(typeDb, input.gearTypeId)
      existingItem == gearItemFindByCode(itemDb, toUpperCase(Trim(input.code)))
      created == GearItem_create(input, id, now)
  IN IF gearType = NoGearType
       THEN [result |-> err([type |-> "gear_type_not_found", id |-> input.gearTypeId]),
             gearItemDb |-> itemDb]
     ELSE IF gearType.trackingMode # "INDIVIDUAL"
       THEN [result |-> err([type |-> "not_individual_tracked"]), gearItemDb |-> itemDb]
     ELSE IF existingItem # NoGearItem
       THEN [result |-> err([type |-> "duplicate_code",
                             code |-> toUpperCase(Trim(input.code))]),
             gearItemDb |-> itemDb]
     ELSE IF ~created.ok THEN [result |-> created, gearItemDb |-> itemDb]
     ELSE [result |-> created, gearItemDb |-> gearItemSave(itemDb, created.value)]

\* What a use case made of one entity call returns and stores: not_found for
\* an item that is not stored, the entity's error, or the saved item.
SavedIfOk(itemDb, itemId, answer) ==
  IF gearItemFindById(itemDb, itemId) = NoGearItem
    THEN [result |-> err([type |-> "not_found", id |-> itemId]), gearItemDb |-> itemDb]
  ELSE IF ~answer.ok THEN [result |-> answer, gearItemDb |-> itemDb]
  ELSE [result |-> answer, gearItemDb |-> gearItemSave(itemDb, answer.value)]

\* updateGearItem; an omitted condition is Null, omitted notes are Undefined.
updateGearItem(itemDb, input, now) ==
  LET item == gearItemFindById(itemDb, input.id)
      conditionResult == IF input.condition # Null
                           THEN updateCondition(item, input.condition, now)
                         ELSE ok(item)
      current == IF input.notes # Undefined
                   THEN updateNotes(conditionResult.value, input.notes, now)
                 ELSE conditionResult.value
  IN SavedIfOk(itemDb, input.id, IF conditionResult.ok THEN ok(current) ELSE conditionResult)

\* sendItemToMaintenance
sendItemToMaintenance(itemDb, itemId, notes, now) ==
  SavedIfOk(itemDb, itemId, sendToMaintenance(gearItemFindById(itemDb, itemId), notes, now))

\* returnItemFromMaintenance
returnItemFromMaintenance(itemDb, itemId, condition, now) ==
  SavedIfOk(itemDb, itemId,
            returnFromMaintenance(gearItemFindById(itemDb, itemId), condition, now))

\* retireItem
retireItem(itemDb, itemId, now) ==
  LET item == gearItemFindById(itemDb, itemId)
  IN SavedIfOk(itemDb, itemId,
               IF isCheckedOut(item) THEN err([type |-> "is_checked_out"])
               ELSE retire(item, now))

\* updateGearType: the Result it returns and the gear types stored after it.
updateGearType(typeDb, input, now) ==
  LET gearType == gearTypeFindById(typeDb, input.id)
      updated == GearType_update(gearType, input, now)
  IN IF gearType = NoGearType
       THEN [result |-> err([type |-> "not_found", id |-> input.id]), gearTypeDb |-> typeDb]
     ELSE IF ~updated.ok THEN [result |-> updated, gearTypeDb |-> typeDb]
     ELSE [result |-> updated, gearTypeDb |-> gearTypeSave(typeDb, updated.value)]

\* updateBulkQuantity: the Result it returns and the gear types stored after it.
updateBulkQuantity(typeDb, typeId, newQuantity, now) ==
  LET gearType == gearTypeFindById(typeDb, typeId)
      updated == updateQuantity(gearType, newQuantity, now)
  IN IF gearType = NoGearType
       THEN [result |-> err([type |-> "not_found", id |-> typeId]), gearTypeDb |-> typeDb]
     ELSE IF ~updated.ok THEN [result |-> updated, gearTypeDb |-> typeDb]
     ELSE [result |-> updated, gearTypeDb |-> gearTypeSave(typeDb, updated.value)]

\* The calls the staff make.  createCheckout for the member in good standing:
\* an available item, a bulk quantity, the same item twice, an item and more
\* of a type than there is, an item that is out, an unknown code, a request
\* that names nothing, a negative quantity, a bulk request for a type tracked
\* by item, and no item at all; for every other member: an available item.
SysItemLists ==
  { <<CheckoutItemRequest(<<"G", "3">>, Null, 0)>>,
    <<CheckoutItemRequest(Undefined, "t1", 1)>>,
    <<CheckoutItemRequest(<<"G", "3">>, Null, 0), CheckoutItemRequest(<<"g", "3">>, Null, 0)>>,
    <<CheckoutItemRequest(<<"g", "3">>, Null, 0), CheckoutItemRequest(Undefined, "t1", 3)>>,
    <<CheckoutItemRequest(<<"G", "1">>, Null, 0)>>,
    <<CheckoutItemRequest(<<"X", "9">>, Null, 0)>>,
    <<CheckoutItemRequest(Undefined, Null, 0)>>,
    <<CheckoutItemRequest(Undefined, "t1", -1)>>,
    <<CheckoutItemRequest(Undefined, "ti", 1)>>,
    <<>> }

SysCreateCheckoutInputs ==
  [memberId : {"m1"}, staffMemberId : {"s1"}, items : SysItemLists, notes : {Undefined}]
  \cup [memberId : {"m2", "m3", "m4", "m9"}, staffMemberId : {"s1"},
        items : {<<CheckoutItemRequest(<<"G", "3">>, Null, 0)>>}, notes : {Undefined}]

SysReturnItemsInputs ==
  { [checkoutId |-> "c1", returns |-> <<ReturnRequest("g1", Null, Null, 0)>>],
    [checkoutId |-> "c1", returns |-> <<ReturnRequest(Null, Null, "t1", 1)>>],
    [checkoutId |-> "c1", returns |-> <<ReturnRequest("g2", "NEEDS_REPAIR", Null, 0),
                                        ReturnRequest(Null, Null, "t1", 3)>>],
    [checkoutId |-> "c2", returns |-> <<>>],
    [checkoutId |-> "n1", returns |-> <<ReturnRequest("g3", Null, Null, 0)>>] }

\* BULK without a quantity, under a name that is taken but for case and
\* blanks and under a new name; a blank name; a new name for a type tracked
\* by item and for one in bulk; a taken name.
CreateGearTypeInputs ==
  { [name |-> <<" ", "a", "B", " ">>, trackingMode |-> "BULK", totalQuantity |-> NoNumber,
     checkoutDurationDays |-> NoNumber],
    [name |-> <<"A">>, trackingMode |-> "BULK", totalQuantity |-> NoNumber,
     checkoutDurationDays |-> NoNumber],
    [name |-> <<" ">>, trackingMode |-> "INDIVIDUAL", totalQuantity |-> NoNumber,
     checkoutDurationDays |-> NoNumber],
    [name |-> <<" ", "A">>, trackingMode |-> "INDIVIDUAL", totalQuantity |-> NoNumber,
     checkoutDurationDays |-> NoNumber],
    [name |-> <<"a">>, trackingMode |-> "BULK", totalQuantity |-> 1,
     checkoutDurationDays |-> 1],
    [name |-> <<"b">>, trackingMode |-> "INDIVIDUAL", totalQuantity |-> NoNumber,
     checkoutDurationDays |-> NoNumber] }

\* A stored code in another case and with blanks, a new code typed in two
\* ways, a blank code and a code with a blank inside, for the type tracked by
\* item; a new code for the bulk type, and the stored code for the bulk type
\* and for an unknown type.
AddGearItemInputs ==
  [gearTypeId : {"ti"},
   code : {<<" ", "g", "3">>, <<"g", "7">>, <<"G", "7", " ">>, <<" ">>, <<"G", " ", "7">>},
   condition : {Null}, notes : {Undefined}]
  \cup [gearTypeId : {"t1"}, code : {<<"g", "7">>, <<" ", "g", "3">>}, condition : {Null},
        notes : {Undefined}]
  \cup [gearTypeId : {"t9"}, code : {<<" ", "g", "3">>}, condition : {Null},
        notes : {Undefined}]

\* A checked out item, an available one, one in maintenance, and none.
SysItemIds == {"g1", "g3", "g5", "g9"}

UpdateGearItemInputs ==
  [id : SysItemIds, condition : {"FAIR"}, notes : {Undefined}]
  \cup [id : {"g1"}, condition : {Null}, notes : {<<"a", " ">>}]

\* No call is running and the answer of the last one has been taken.
Idle == procs["e1"].pc = "idle" /\ result = NoResult

CanCall == Idle /\ ncalls < MaxSysCalls

\* The call answers: its Result is there for the caller to take.
Answered(op, input, res) ==
  /\ result' = [op |-> op, input |-> input, res |-> res]
  /\ UNCHANGED <<checkout, clock, ncalls, checkoutDb, events, procs, writes>>

GetCheckoutEligibility(memberId) ==
  /\ CanCall
  /\ Answered("getCheckoutEligibility", memberId,
              getCheckoutEligibility(MemberDb, checkoutDb, memberId, clock))
  /\ UNCHANGED <<gearItemDb, gearTypeDb>>

CreateGearType(input) ==
  /\ CanCall
  /\ LET after == createGearType(gearTypeDb, input, NextId, clock)
     IN /\ gearTypeDb' = after.gearTypeDb
        /\ Answered("createGearType", input, after.result)
  /\ UNCHANGED gearItemDb

DeleteGearType(typeId) ==
  /\ CanCall
  /\ LET after == deleteGearType(gearTypeDb, gearItemDb, typeId)
     IN /\ gearTypeDb' = after.gearTypeDb
        /\ gearItemDb' = after.gearItemDb
        /\ Answered("deleteGearType", typeId, after.result)

AddGearItem(input) ==
  /\ CanCall
  /\ LET after == addGearItem(gearTypeDb, gearItemDb, input, NextId, clock)
     IN /\ gearItemDb' = after.gearItemDb
        /\ Answered("addGearItem", input, after.result)
  /\ UNCHANGED gearTypeDb

UpdateGearItem(input) ==
  /\ CanCall
  /\ LET after == updateGearItem(gearItemDb, input, clock)
     IN /\ gearItemDb' = after.gearItemDb
        /\ Answered("updateGearItem", input.id, after.result)
  /\ UNCHANGED gearTypeDb

SendItemToMaintenance(itemId, notes) ==
  /\ CanCall
  /\ LET after == sendItemToMaintenance(gearItemDb, itemId, notes, clock)
     IN /\ gearItemDb' = after.gearItemDb
        /\ Answered("sendItemToMaintenance", itemId, after.result)
  /\ UNCHANGED gearTypeDb

ReturnItemFromMaintenance(itemId, condition) ==
  /\ CanCall
  /\ LET after == returnItemFromMaintenance(gearItemDb, itemId, condition, clock)
     IN /\ gearItemDb' = after.gearItemDb
        /\ Answered("returnItemFromMaintenance", itemId, after.result)
  /\ UNCHANGED gearTypeDb

RetireItem(itemId) ==
  /\ CanCall
  /\ LET after == retireItem(gearItemDb, itemId, clock)
     IN /\ gearItemDb' = after.gearItemDb
        /\ Answered("retireItem", itemId, after.result)
  /\ UNCHANGED gearTypeDb

UpdateGearType(input) ==
  /\ CanCall
  /\ LET after == updateGearType(gearTypeDb, input, clock)
     IN /\ gearTypeDb' = after.gearTypeDb
        /\ Answered("updateGearType", input, after.result)
  /\ UNCHANGED gearItemDb

UpdateBulkQuantity(typeId, newQuantity) ==
  /\ CanCall
  /\ LET after == updateBulkQuantity(gearTypeDb, typeId, newQuantity, clock)
     IN /\ gearTypeDb' = after.gearTypeDb
        /\ Answered("updateBulkQuantity", [id |-> typeId, newQuantity |-> newQuantity],
                    after.result)
  /\ UNCHANGED gearItemDb

\* The call that was made has returned or thrown and its answer is taken: the
\* call is counted and the next can be made.
CallReturns ==
  /\ procs["e1"].pc = "done" \/ result # NoResult
  /\ procs' = [procs EXCEPT !["e1"] = IdleExecution]
  /\ writes' = [writes EXCEPT !["e1"] = <<>>]
  /\ result' = NoResult
  /\ ncalls' = ncalls + 1
  /\ UNCHANGED <<checkout, clock, checkoutDb, gearItemDb, gearTypeDb, events>>

\* The seeded catalog and a second type tracked by item, none of whose items
\* is out: g4 is available, g5 in maintenance.  The calls are made at the time
\* the seeded checkout falls due or after it.
InitSys ==
  /\ checkout = NoCheckout
  /\ clock \in 1..(MaxTime + 1)
  /\ result = NoResult
  /\ ncalls = 0
  /\ checkoutDb = SeedCheckoutDb
  /\ gearItemDb =
       [id \in {"g1", "g2", "g3", "g4", "g5"} |->
          IF id \in DOMAIN SeedGearItemDb THEN SeedGearItemDb[id]
          ELSE [SeedGearItem(id, <<"G", IF id = "g4" THEN "4" ELSE "5">>,
                             IF id = "g4" THEN "AVAILABLE" ELSE "MAINTENANCE")
                  EXCEPT !.gearTypeId = "t2"]]
  /\ gearTypeDb =
       [id \in {"ti", "t1", "t2"} |->
          IF id \in DOMAIN SeedGearTypeDb THEN SeedGearTypeDb[id]
          ELSE [SeedGearTypeDb["ti"] EXCEPT !.id = "t2", !.name = <<"A", " ", "A">>]]
  /\ events = <<>>
  /\ procs = [e \in Executions |-> IdleExecution]
  /\ writes = [e \in Executions |-> <<>>]

NextSys ==
  \/ \E input \in SysCreateCheckoutInputs : CanCall /\ CC_Load("e1", input)
  \/ CC_Resolve("e1")
  \/ CC_SaveCheckout("e1")
  \/ CC_SaveCheckoutRejects("e1")
  \/ CC_SaveGearItem("e1")
  \/ CC_SaveGearItemRejects("e1")
  \/ CC_Publish("e1")
  \/ CC_PublishRejects("e1")
  \/ \E input \in SysReturnItemsInputs : CanCall /\ RI_Load("e1", input)
  \/ RI_Apply("e1")
  \/ RI_SaveCheckout("e1")
  \/ RI_SaveCheckoutRejects("e1")
  \/ RI_SaveGearItem("e1")
  \/ RI_SaveGearItemRejects("e1")
  \/ RI_Publish("e1")
  \/ RI_PublishRejects("e1")
  \/ \E input \in ReturnItemInputsByCode : CanCall /\ RC_FindItem("e1", input)
  \/ RC_FindType("e1")
  \/ RC_FindCheckout("e1")
  \/ RC_SaveCheckout("e1")
  \/ RC_SaveCheckoutRejects("e1")
  \/ RC_SaveGearItem("e1")
  \/ RC_SaveGearItemRejects("e1")
  \/ RC_Publish("e1")
  \/ RC_PublishRejects("e1")
  \/ \E memberId \in {"m1", "m2", "m3", "m4", "m9"} : GetCheckoutEligibility(memberId)
  \/ \E input \in CreateGearTypeInputs : CreateGearType(input)
  \/ \E typeId \in {"ti", "t1", "t2", "t9"} : DeleteGearType(typeId)
  \/ \E input \in AddGearItemInputs : AddGearItem(input)
  \/ \E input \in UpdateGearItemInputs : UpdateGearItem(input)
  \/ \E itemId \in SysItemIds : SendItemToMaintenance(itemId, Undefined)
  \/ \E itemId \in SysItemIds : ReturnItemFromMaintenance(itemId, "GOOD")
  \/ \E itemId \in SysItemIds : RetireItem(itemId)
  \/ CallReturns

SpecSys == InitSys /\ [][NextSys]_vars

----------------------------------------------------------------------------
(* The same use cases with every call run to its end: no save and no        *)
(* publish rejects.  The gear types can be renamed and restocked as well.   *)

\* returnItems: the batches of SpecSys, a bulk request for a quantity of 0,
\* a request that names nothing, and the two after a return of g1.
RunReturnItemsInputs ==
  SysReturnItemsInputs
  \cup { [checkoutId |-> "c1", returns |-> <<ReturnRequest(Null, Null, "t1", 0)>>],
         [checkoutId |-> "c1", returns |-> <<ReturnRequest(Null, Null, Null, 0)>>],
         [checkoutId |-> "c1", returns |-> <<ReturnRequest("g1", Null, Null, 0),
                                             ReturnRequest(Null, Null, "t1", 0),
                                             ReturnRequest(Null, Null, Null, 0)>>] }

\* updateGearType: the bulk type renamed to the name of the type tracked by
\* item, but for case and blanks, and to a new name; a blank name; a new
\* duration under the old name; a type that is not stored.
UpdateGearTypeInputs ==
  { [id |-> "t1", name |-> <<" ", "a", "B">>, checkoutDurationDays |-> NoNumber],
    [id |-> "t1", name |-> <<"b", "b">>, checkoutDurationDays |-> NoNumber],
    [id |-> "t1", name |-> <<" ">>, checkoutDurationDays |-> NoNumber],
    [id |-> "ti", name |-> Undefined, checkoutDurationDays |-> 2],
    [id |-> "t9", name |-> <<"b", "b">>, checkoutDurationDays |-> NoNumber] }

\* updateBulkQuantity: less than is out, as much as is out, more, a negative
\* quantity.
NewQuantities == {1, 2, 3, -1}

NextRun ==
  \/ \E input \in SysCreateCheckoutInputs : CanCall /\ CC_Load("e1", input)
  \/ CC_Resolve("e1")
  \/ CC_SaveCheckout("e1")
  \/ CC_SaveGearItem("e1")
  \/ CC_Publish("e1")
  \/ \E input \in RunReturnItemsInputs : CanCall /\ RI_Load("e1", input)
  \/ RI_Apply("e1")
  \/ RI_SaveCheckout("e1")
  \/ RI_SaveGearItem("e1")
  \/ RI_Publish("e1")
  \/ \E input \in ReturnItemInputsByCode : CanCall /\ RC_FindItem("e1", input)
  \/ RC_FindType("e1")
  \/ RC_FindCheckout("e1")
  \/ RC_SaveCheckout("e1")
  \/ RC_SaveGearItem("e1")
  \/ RC_Publish("e1")
  \/ \E input \in CreateGearTypeInputs : CreateGearType(input)
  \/ \E input \in UpdateGearTypeInputs : UpdateGearType(input)
  \/ \E typeId \in {"ti", "t1", "t9"}, newQuantity \in NewQuantities :
       UpdateBulkQuantity(typeId, newQuantity)
  \/ \E typeId \in {"ti", "t1", "t2", "t9"} : DeleteGearType(typeId)
  \/ \E input \in AddGearItemInputs : AddGearItem(input)
  \/ \E input \in UpdateGearItemInputs : UpdateGearItem(input)
  \/ \E itemId \in SysItemIds : SendItemToMaintenance(itemId, Undefined)
  \/ \E itemId \in SysItemIds : ReturnItemFromMaintenance(itemId, "GOOD")
  \/ \E itemId \in SysItemIds : RetireItem(itemId)
  \/ CallReturns

SpecRun == InitSys /\ [][NextRun]_vars

----------------------------------------------------------------------------
(* Properties of the aggregate, checked under Spec *)

\* A line is fully resolved: an individual line has been returned, a bulk line
\* has had its whole quantity returned.
LineResolved(item) ==
  IF item.gearItemId # Null
    THEN item.returnedAt # NoDate
    ELSE item.returnedQuantity >= item.quantity

AllLinesResolved(co) == \A i \in 1..Len(co.items) : LineResolved(co.items[i])

IsBulkLine(item) == item.gearItemId = Null

\* The step is a call of one of the named aggregate operations.
IsCall(ops) == ncalls' = ncalls + 1 /\ result'.op \in ops

\* C1: in every checkout reachable from create by return calls, status is
\* COMPLETED iff every line is fully resolved iff completedAt is set.
C1_CompletedIffResolvedIffCompletedAt ==
  checkout # NoCheckout =>
    /\ (checkout.status = STATUS_COMPLETED) <=> AllLinesResolved(checkout)
    /\ (checkout.status = STATUS_COMPLETED) <=> (checkout.completedAt # NoDate)

\* A checkout completed by a return call while another line was resolved before.
C1_Witness ==
  /\ checkout # NoCheckout
  /\ Len(checkout.items) = 2
  /\ checkout.status = STATUS_COMPLETED
  /\ checkout.completedAt = 1
  /\ result.op = "returnBulkItem" /\ result.res.ok

\* C2: every bulk line keeps 0 <= returnedQuantity <= quantity, whatever
\* integer quantity returnBulkItem is given.
C2_ReturnedQuantityInRange ==
  checkout # NoCheckout =>
    \A i \in 1..Len(checkout.items) :
      IsBulkLine(checkout.items[i]) =>
        /\ 0 <= checkout.items[i].returnedQuantity
        /\ checkout.items[i].returnedQuantity <= checkout.items[i].quantity

\* C3: a line's returnedAt is set iff the line is fully resolved (individual:
\* returned; bulk: returnedQuantity has reached quantity).
C3_ReturnedAtIffResolved ==
  checkout # NoCheckout =>
    \A i \in 1..Len(checkout.items) :
      (checkout.items[i].returnedAt # NoDate) <=>
        IF IsBulkLine(checkout.items[i])
          THEN checkout.items[i].returnedQuantity >= checkout.items[i].quantity
          ELSE checkout.items[i].conditionAtReturn # Null

\* C8: on a COMPLETED checkout every returnItem and returnBulkItem call fails
\* with checkout_completed, whatever reference or quantity it is given.
C8_CompletedRejectsReturns ==
  [][ (checkout # NoCheckout /\ checkout.status = STATUS_COMPLETED
        /\ IsCall({"returnItem", "returnBulkItem"}))
      => (~result'.res.ok /\ result'.res.error = [type |-> "checkout_completed"]) ]_vars

\* A bulk return naming a type that is on no line, refused as checkout_completed.
C8_Witness ==
  /\ checkout # NoCheckout
  /\ checkout.status = STATUS_COMPLETED
  /\ result.op = "returnBulkItem"
  /\ result.id = UnknownTypeId
  /\ ~result.res.ok
  /\ result.res.error.type = "checkout_completed"

\* The step repeats, on the checkout it produced, the returnItem call that has
\* just succeeded.
SecondReturnOfSameItem ==
  /\ result.op = "returnItem" /\ result.res.ok
  /\ IsCall({"returnItem"})
  /\ result'.id = result.id

\* C9 as stated: the second returnItem for the same item fails with
\* item_already_returned and leaves the aggregate as the first call left it.
C9_SecondReturnAlreadyReturned ==
  [][ SecondReturnOfSameItem
      => /\ ~result'.res.ok
         /\ result'.res.error = [type |-> "item_already_returned"]
         /\ checkout' = checkout ]_vars

\* C9 amended: the second returnItem for the same item fails, with
\* checkout_completed when the first call completed the checkout and with
\* item_already_returned otherwise, and leaves the aggregate as the first call
\* left it.
C9_SecondReturnFails ==
  [][ SecondReturnOfSameItem
      => /\ ~result'.res.ok
         /\ result'.res.error =
              IF checkout.status = STATUS_COMPLETED
                THEN [type |-> "checkout_completed"]
                ELSE [type |-> "item_already_returned"]
         /\ checkout' = checkout ]_vars

\* A second return of an item refused as already returned, on a checkout that
\* still has an open line.
C9_Witness ==
  /\ checkout # NoCheckout
  /\ checkout.status = STATUS_PARTIALLY_RETURNED
  /\ result.op = "returnItem"
  /\ ~result.res.ok
  /\ result.res.error.type = "item_already_returned"
  /\ \E i \in 1..Len(checkout.items) :
       checkout.items[i].gearItemId = result.id /\ checkout.items[i].returnedAt # NoDate

\* C10: once COMPLETED, no aggregate operation succeeds; lines, status and
\* completedAt stay as they are and the checkout is never removed.
C10_CompletedIsTerminal ==
  [][ (checkout # NoCheckout /\ checkout.status = STATUS_COMPLETED)
      => /\ checkout' = checkout
         /\ (ncalls' # ncalls => ~result'.res.ok) ]_vars

\* An extendDueDate call refused on a completed checkout.
C10_Witness ==
  /\ checkout # NoCheckout
  /\ checkout.status = STATUS_COMPLETED
  /\ result.op = "extendDueDate"
  /\ result.id \in GearItemIds \cup GearTypeIds
  /\ ~result.res.ok
  /\ result.res.error.type = "item_already_returned"

\* A line shows return progress: an individual line has been returned, a bulk
\* line has had some of its quantity returned.
LineHasProgress(item) ==
  IF IsBulkLine(item) THEN item.returnedQuantity > 0 ELSE item.returnedAt # NoDate

\* The status derivation rule, applied to the lines of a checkout.
DerivedStatus(items) ==
  IF \A i \in 1..Len(items) : LineResolved(items[i]) THEN STATUS_COMPLETED
  ELSE IF \E i \in 1..Len(items) : LineHasProgress(items[i])
    THEN STATUS_PARTIALLY_RETURNED
  ELSE STATUS_ACTIVE

\* The last call was a returnItem or returnBulkItem that succeeded.
ReturnSucceeded ==
  result.op \in {"returnItem", "returnBulkItem"} /\ result.res.ok

\* C11: the checkout a successful returnItem or returnBulkItem hands back has
\* the status the derivation rule gives for its lines: COMPLETED iff every line
\* is fully resolved, otherwise PARTIALLY_RETURNED iff some line shows return
\* progress, otherwise ACTIVE.
C11_ReturnDerivesStatus ==
  ReturnSucceeded =>
    result.res.value.status = DerivedStatus(result.res.value.items)

\* A bulk return of part of a line, on a checkout with no line resolved, that
\* made the checkout PARTIALLY_RETURNED.
C11_Witness ==
  /\ result.op = "returnBulkItem" /\ result.res.ok
  /\ result.res.value.status = STATUS_PARTIALLY_RETURNED
  /\ \A i \in 1..Len(result.res.value.items) : ~LineResolved(result.res.value.items[i])
  /\ \E i \in 1..Len(result.res.value.items) :
       /\ result.res.value.items[i].returnedQuantity > 0
       /\ result.res.value.items[i].returnedQuantity < result.res.value.items[i].quantity

NoLineResolved(co) == \A i \in 1..Len(co.items) : ~LineResolved(co.items[i])

\* C12 as stated: status is ACTIVE exactly when no line is fully resolved,
\* PARTIALLY_RETURNED exactly when some but not all lines are, and COMPLETED
\* exactly when all lines are.
C12_StatusByResolvedLines ==
  checkout # NoCheckout =>
    /\ (checkout.status = STATUS_ACTIVE) <=> NoLineResolved(checkout)
    /\ (checkout.status = STATUS_PARTIALLY_RETURNED) <=>
         (~NoLineResolved(checkout) /\ ~AllLinesResolved(checkout))
    /\ (checkout.status = STATUS_COMPLETED) <=> AllLinesResolved(checkout)

\* C12 amended: in every reachable checkout, status is COMPLETED exactly when
\* all lines are fully resolved, PARTIALLY_RETURNED exactly when not all lines
\* are resolved and some line shows return progress (a bulk line as soon as
\* returnedQuantity > 0), and ACTIVE exactly when no line shows return progress.
C12_StatusByReturnProgress ==
  checkout # NoCheckout =>
    /\ (checkout.status = STATUS_COMPLETED) <=> AllLinesResolved(checkout)
    /\ (checkout.status = STATUS_PARTIALLY_RETURNED) <=>
         ( /\ ~AllLinesResolved(checkout)
           /\ \E i \in 1..Len(checkout.items) : LineHasProgress(checkout.items[i]) )
    /\ (checkout.status = STATUS_ACTIVE) <=>
         \A i \in 1..Len(checkout.items) : ~LineHasProgress(checkout.items[i])

\* A checkout that is PARTIALLY_RETURNED with no line fully resolved, and has
\* gone on to another call since.
C12_Witness ==
  /\ checkout # NoCheckout
  /\ checkout.status = STATUS_PARTIALLY_RETURNED
  /\ NoLineResolved(checkout)
  /\ result.op = "extendDueDate" /\ result.res.ok

\* The first line of the checkout for a gear type, 0 if there is none.
FirstLineForType(co, typeId) ==
  IF \E i \in 1..Len(co.items) : co.items[i].gearTypeId = typeId
    THEN CHOOSE i \in 1..Len(co.items) :
           /\ co.items[i].gearTypeId = typeId
           /\ \A j \in 1..(i - 1) : co.items[j].gearTypeId # typeId
    ELSE 0

\* What is left to return on a bulk line.
Remaining(item) == item.quantity - item.returnedQuantity

\* The step is a returnBulkItem call on a checkout that is not completed and
\* has a line for the type.
BulkCallOnOpenLine ==
  /\ checkout # NoCheckout
  /\ checkout.status # STATUS_COMPLETED
  /\ IsCall({"returnBulkItem"})
  /\ FirstLineForType(checkout, result'.id) # 0

\* C13: a returnBulkItem call for more than remains on the line fails with
\* invalid_quantity carrying the requested quantity and the remaining
\* quantity (line quantity minus returned quantity), and leaves the aggregate
\* as it was.
C13_OverReturnRejected ==
  [][ ( /\ BulkCallOnOpenLine
        /\ result'.quantity >
             Remaining(checkout.items[FirstLineForType(checkout, result'.id)]) )
      => /\ ~result'.res.ok
         /\ result'.res.error =
              [type |-> "invalid_quantity",
               requested |-> result'.quantity,
               remaining |->
                 Remaining(checkout.items[FirstLineForType(checkout, result'.id)])]
         /\ checkout' = checkout ]_vars

\* A return of the line's whole quantity refused after part of the line had
\* been returned.
C13_Witness ==
  /\ checkout # NoCheckout
  /\ result.op = "returnBulkItem"
  /\ ~result.res.ok
  /\ result.res.error.type = "invalid_quantity"
  /\ result.res.error.requested = 2
  /\ result.res.error.remaining = 1
  /\ checkout.items[FirstLineForType(checkout, result.id)].returnedQuantity = 1
  /\ checkout.status = STATUS_PARTIALLY_RETURNED

\* C14: a successful returnBulkItem of a positive quantity, on a line that
\* positive returns have brought to its present state (returnedAt still null),
\* adds the quantity to returnedQuantity; returnedAt stays null while the sum is
\* below the line's quantity and becomes the call's timestamp when the sum
\* reaches it; and if the line was the last unresolved one the checkout becomes
\* COMPLETED with completedAt the call's timestamp.
C14_PartialReturnsAccumulate ==
  [][ ( /\ BulkCallOnOpenLine
        /\ result'.res.ok
        /\ result'.quantity > 0
        /\ checkout.items[FirstLineForType(checkout, result'.id)].returnedAt = NoDate )
      => LET i == FirstLineForType(checkout, result'.id)
             before == checkout.items[i]
             after == checkout'.items[i]
             sum == before.returnedQuantity + result'.quantity
         IN /\ after.returnedQuantity = sum
            /\ sum <= before.quantity
            /\ after.returnedAt = IF sum = before.quantity THEN result'.at ELSE NoDate
            /\ ( /\ sum = before.quantity
                 /\ \A j \in 1..Len(checkout.items) :
                      j # i => LineResolved(checkout.items[j]) )
               => /\ checkout'.status = STATUS_COMPLETED
                  /\ checkout'.completedAt = result'.at ]_vars

\* A second partial return that filled the line, after the clock had moved on
\* from the checkout's creation, and completed a checkout of two lines.
C14_Witness ==
  /\ checkout # NoCheckout
  /\ Len(checkout.items) = 2
  /\ result.op = "returnBulkItem" /\ result.res.ok
  /\ result.quantity = 1
  /\ result.at = 1
  /\ LET line == checkout.items[FirstLineForType(checkout, result.id)]
     IN line.quantity = 2 /\ line.returnedQuantity = 2 /\ line.returnedAt = 1
  /\ checkout.createdAt = 0
  /\ checkout.status = STATUS_COMPLETED
  /\ checkout.completedAt = 1

\* The first line of the checkout whose item or type reference is the id, 0 if
\* there is none.
FirstLineFor(co, id) ==
  IF \E i \in 1..Len(co.items) : id \in {co.items[i].gearItemId, co.items[i].gearTypeId}
    THEN CHOOSE i \in 1..Len(co.items) :
           /\ id \in {co.items[i].gearItemId, co.items[i].gearTypeId}
           /\ \A j \in 1..(i - 1) :
                id \notin {co.items[j].gearItemId, co.items[j].gearTypeId}
    ELSE 0

\* C15 as stated: after create no operation adds or removes a line, and no
\* operation other than returnItem and returnBulkItem yields a checkout that
\* differs from its receiver; no line's dueAt changes.
C15_OnlyReturnsMutate ==
  [][ checkout # NoCheckout
      => /\ Len(checkout'.items) = Len(checkout.items)
         /\ (~IsCall({"returnItem", "returnBulkItem"}) => checkout' = checkout)
         /\ \A i \in 1..Len(checkout.items) :
              checkout'.items[i].dueAt = checkout.items[i].dueAt ]_vars

\* C15 amended: after create no operation adds or removes a line; besides
\* returnItem and returnBulkItem only a successful extendDueDate yields a
\* checkout that differs from its receiver, and it differs in nothing but the
\* dueAt of the first line matching the id, a line not fully resolved; the
\* return operations change no dueAt.
C15_OnlyReturnsAndExtendMutate ==
  [][ checkout # NoCheckout
      => /\ Len(checkout'.items) = Len(checkout.items)
         /\ (~IsCall({"returnItem", "returnBulkItem", "extendDueDate"})
               => checkout' = checkout)
         /\ (IsCall({"returnItem", "returnBulkItem"})
               => \A i \in 1..Len(checkout.items) :
                    checkout'.items[i].dueAt = checkout.items[i].dueAt)
         /\ (IsCall({"extendDueDate"})
               => IF result'.res.ok
                    THEN LET i == FirstLineFor(checkout, result'.id)
                         IN /\ i # 0
                            /\ ~LineResolved(checkout.items[i])
                            /\ checkout' = [checkout EXCEPT
                                              !.items[i].dueAt = checkout'.items[i].dueAt]
                    ELSE checkout' = checkout) ]_vars

\* An extendDueDate call that moved the due date of a line of a partially
\* returned checkout.
C15_Witness ==
  /\ checkout # NoCheckout
  /\ checkout.status = STATUS_PARTIALLY_RETURNED
  /\ result.op = "extendDueDate" /\ result.res.ok
  /\ result.res.value = checkout
  /\ checkout.items[FirstLineFor(checkout, result.id)].dueAt \notin DueDates

\* The line a return call is aimed at: the first line for the item or type.
ReturnedLine(co, op, id) ==
  IF op = "returnItem"
    THEN IF \E i \in 1..Len(co.items) : co.items[i].gearItemId = id
           THEN CHOOSE i \in 1..Len(co.items) :
                  /\ co.items[i].gearItemId = id
                  /\ \A j \in 1..(i - 1) : co.items[j].gearItemId # id
           ELSE 0
    ELSE FirstLineForType(co, id)

\* The frame of a successful return step on line i: the lines keep their number
\* and order, every line but i is identical, line i keeps its reference,
\* quantity, checkedOutAt, dueAt and conditionAtCheckout, and the checkout keeps
\* its id, memberId, staffMemberId, createdAt and notes.
ReturnFrame(i) ==
  /\ i # 0
  /\ Len(checkout'.items) = Len(checkout.items)
  /\ \A j \in 1..Len(checkout.items) :
       j # i => checkout'.items[j] = checkout.items[j]
  /\ checkout'.items[i].gearItemId = checkout.items[i].gearItemId
  /\ checkout'.items[i].gearTypeId = checkout.items[i].gearTypeId
  /\ checkout'.items[i].quantity = checkout.items[i].quantity
  /\ checkout'.items[i].checkedOutAt = checkout.items[i].checkedOutAt
  /\ checkout'.items[i].dueAt = checkout.items[i].dueAt
  /\ checkout'.items[i].conditionAtCheckout = checkout.items[i].conditionAtCheckout
  /\ checkout'.id = checkout.id
  /\ checkout'.memberId = checkout.memberId
  /\ checkout'.staffMemberId = checkout.staffMemberId
  /\ checkout'.createdAt = checkout.createdAt
  /\ checkout'.notes = checkout.notes

SuccessfulReturnStep ==
  checkout # NoCheckout /\ IsCall({"returnItem", "returnBulkItem"}) /\ result'.res.ok

FirstBadQuantity(items) ==
  IF \E i \in 1..Len(items) : items[i].type = "bulk" /\ items[i].quantity < 1
    THEN CHOOSE i \in 1..Len(items) :
           /\ items[i].type = "bulk" /\ items[i].quantity < 1
           /\ \A j \in 1..(i - 1) : ~(items[j].type = "bulk" /\ items[j].quantity < 1)
    ELSE 0

\* C17: create fails with no_items on an empty list, otherwise with
\* invalid_quantity naming the (zero-based) index and the quantity of the first
\* bulk line with a quantity below 1; in every other case it succeeds with at
\* least one line, every line unreturned (returnedAt null, returnedQuantity 0),
\* status ACTIVE and completedAt null.
C17_CreateOutcome ==
  result.op = "create" =>
    LET items == result.input.items
        bad == FirstBadQuantity(items)
    IN IF Len(items) = 0 THEN result.res = err([type |-> "no_items"])
       ELSE IF bad # 0
         THEN result.res = err([type |-> "invalid_quantity", index |-> bad - 1,
                                quantity |-> items[bad].quantity])
       ELSE /\ result.res.ok
            /\ checkout = result.res.value
            /\ Len(checkout.items) = Len(items)
            /\ Len(checkout.items) >= 1
            /\ \A i \in 1..Len(checkout.items) :
                 /\ checkout.items[i].returnedAt = NoDate
                 /\ checkout.items[i].returnedQuantity = 0
            /\ checkout.status = STATUS_ACTIVE
            /\ checkout.completedAt = NoDate

\* A create refused for its second line, a bulk line of quantity 0, after a
\* valid first line.
C17_Witness ==
  /\ result.op = "create"
  /\ Len(result.input.items) = 2
  /\ result.input.items[2].type = "bulk"
  /\ result.input.items[2].quantity = 0
  /\ ~result.res.ok
  /\ result.res.error.type = "invalid_quantity"
  /\ result.res.error.index = 1
  /\ checkout = NoCheckout

----------------------------------------------------------------------------
(* Properties of the overdue queries, checked under SpecOverdue *)

\* The lines of the checkout that are unresolved and due strictly before asOf.
OverdueLines(co, asOf) ==
  {i \in 1..Len(co.items) : ~LineResolved(co.items[i]) /\ co.items[i].dueAt < asOf}

\* C18: isOverdue(asOf) is true iff some unresolved line is due strictly before
\* asOf, and getOverdueItems(asOf) is exactly those lines: a line due at asOf is
\* not among them, a line due one time unit before asOf is unless it is fully
\* resolved, and a fully resolved line never is.
C18_OverdueIsUnresolvedPastDue ==
  /\ result.op = "isOverdue"
       => (result.res <=> OverdueLines(checkout, result.asOf) # {})
  /\ result.op = "getOverdueItems"
       => /\ Len(result.res) = Cardinality(OverdueLines(checkout, result.asOf))
          /\ {result.res[k] : k \in 1..Len(result.res)}
               = {checkout.items[i] : i \in OverdueLines(checkout, result.asOf)}
          /\ \A i \in 1..Len(checkout.items) :
               /\ checkout.items[i].dueAt = result.asOf
                    => \A k \in 1..Len(result.res) : result.res[k] # checkout.items[i]
               /\ LineResolved(checkout.items[i])
                    => \A k \in 1..Len(result.res) : result.res[k] # checkout.items[i]
               /\ (checkout.items[i].dueAt + 1 = result.asOf
                     /\ ~LineResolved(checkout.items[i]))
                    => \E k \in 1..Len(result.res) : result.res[k] = checkout.items[i]

\* getOverdueItems asked one millisecond after the due date of two lines, one
\* of them returned: the answer is the other line alone.
C18_Witness ==
  /\ result.op = "getOverdueItems"
  /\ Len(checkout.items) = 2
  /\ \E i, j \in 1..2 :
       /\ i # j
       /\ LineResolved(checkout.items[i])
       /\ ~LineResolved(checkout.items[j])
       /\ checkout.items[i].dueAt + 1 = result.asOf
       /\ checkout.items[j].dueAt + 1 = result.asOf
       /\ result.res = <<checkout.items[j]>>

\* One day, in the unit of the dates (milliseconds): 86400 seconds.
OneDay == 86400 * 1000

\* C19: daysOverdue(asOf) is the number of whole days the most overdue line is
\* past due (the largest floor((asOf - dueAt) / one day) over the overdue
\* lines), 0 when no line is overdue, 0 when every overdue line is less than a
\* day past due, and never negative.
C19_DaysOverdueIsMaxWholeDays ==
  result.op = "daysOverdue" =>
    LET overdue == OverdueLines(checkout, result.asOf)
        late(i) == result.asOf - checkout.items[i].dueAt
    IN /\ result.res >= 0
       /\ overdue = {} => result.res = 0
       /\ overdue # {} =>
            /\ \E i \in overdue :
                 result.res * OneDay <= late(i) /\ late(i) < (result.res + 1) * OneDay
            /\ \A i \in overdue : late(i) < (result.res + 1) * OneDay
       /\ (overdue # {} /\ \A i \in overdue : late(i) < OneDay) => result.res = 0

\* daysOverdue answering 2 for a checkout whose two open lines are more than
\* two days and more than one day past due.
C19_Witness ==
  /\ result.op = "daysOverdue"
  /\ result.res = 2
  /\ Len(checkout.items) = 2
  /\ OverdueLines(checkout, result.asOf) = {1, 2}
  /\ checkout.items[1].dueAt # checkout.items[2].dueAt

\* daysOverdue answering 0 for a line that is past due by less than a day.
C19_WitnessUnderOneDay ==
  /\ result.op = "daysOverdue"
  /\ result.res = 0
  /\ \E i \in OverdueLines(checkout, result.asOf) :
       result.asOf - checkout.items[i].dueAt = OneDay - 1

----------------------------------------------------------------------------
(* Properties of the return use cases, checked under SpecUC *)

Done(e) == procs[e].pc = "done"

Succeeded(e) == Done(e) /\ procs[e].outcome = "ok"

\* The lines an execution's return changed on the checkout it loaded.
ChangedLines(e) ==
  {i \in 1..Len(procs[e].initial.items) :
     procs[e].current.items[i] # procs[e].initial.items[i]}

\* The repository writes of an execution, its published event left out.
DataWrites(e) == SelectSeq(writes[e], LAMBDA w : w.kind # "event")

WroteKind(e, kind) == \E i \in 1..Len(writes[e]) : writes[e][i].kind = kind

\* C4: when two return executions on the same checkout, each returning
\* different lines, have both reported success, the stored checkout shows the
\* return progress of both.
C4_NoLostUpdate ==
  \A e1, e2 \in Executions :
    ( /\ e1 # e2
      /\ Succeeded(e1) /\ Succeeded(e2)
      /\ procs[e1].initial.id = procs[e2].initial.id
      /\ ChangedLines(e1) # {} /\ ChangedLines(e2) # {}
      /\ ChangedLines(e1) \cap ChangedLines(e2) = {} )
    => \A i \in ChangedLines(e1) :
         checkoutFindById(checkoutDb, procs[e1].initial.id).items[i] = procs[e1].current.items[i]

\* Some request of the batch fails when the batch is applied in order to the
\* checkout, by the aggregate's own return operations.
RECURSIVE SomeRequestFails(_, _)
SomeRequestFails(co, reqs) ==
  IF reqs = <<>> THEN FALSE
  ELSE LET r == Head(reqs)
       IN IF r.gearItemId # Null
            THEN LET res == returnItem(co, r.gearItemId,
                                       IF r.condition = Null THEN "GOOD" ELSE r.condition,
                                       r.notes, clock)
                 IN IF res.ok THEN SomeRequestFails(res.value, Tail(reqs)) ELSE TRUE
          ELSE IF r.gearTypeId # Null /\ r.quantity # 0
            THEN LET res == returnBulkItem(co, r.gearTypeId, r.quantity, r.notes, clock)
                 IN IF res.ok THEN SomeRequestFails(res.value, Tail(reqs)) ELSE TRUE
          ELSE SomeRequestFails(co, Tail(reqs))

\* C5: a returnItems call whose batch holds a failing request returns an error
\* and persists nothing: no save, no event, and (no other execution having
\* started) the repositories as they were before the call.
C5_FailedBatchPersistsNothing ==
  \A e \in Executions :
    ( /\ procs[e].op = "returnItems"
      /\ procs[e].initial # NoCheckout
      /\ SomeRequestFails(procs[e].initial, procs[e].input.returns) )
    => /\ writes[e] = <<>>
       /\ Done(e) => procs[e].outcome = "err"
       /\ (\A o \in Executions \ {e} : procs[o].pc = "idle")
            => /\ checkoutDb = SeedCheckoutDb
               /\ gearItemDb = SeedGearItemDb
               /\ events = <<>>

\* A batch aborted at its second request after the first had succeeded in
\* memory and queued a gear item update.
C5_Witness ==
  \E e \in Executions :
    /\ procs[e].op = "returnItems"
    /\ Done(e) /\ procs[e].outcome = "err"
    /\ Len(procs[e].input.returns) = 2
    /\ procs[e].remaining # <<>>
    /\ procs[e].current # procs[e].initial
    /\ procs[e].toUpdate # <<>>
    /\ \A o \in Executions \ {e} : procs[o].pc = "idle"

\* C6: whatever the outcome of returnItemByCode, it has stored both the
\* updated checkout and the updated gear item, or neither.
C6_ByCodeBothOrNeither ==
  \A e \in Executions :
    (procs[e].op = "returnItemByCode" /\ Done(e))
    => (WroteKind(e, "checkout") <=> WroteKind(e, "gearItem"))

\* C7: whatever the outcome of returnItems, the repositories hold all of the
\* batch's writes (the checkout and every queued gear item) or none of them.
C7_BatchAllOrNothing ==
  \A e \in Executions :
    (procs[e].op = "returnItems" /\ Done(e))
    => \/ DataWrites(e) = <<>>
       \/ (WroteKind(e, "checkout") /\ procs[e].toUpdate = <<>>)

\* The status a returned item must get for the condition reported.
StatusForCondition(condition) ==
  IF condition = "NEEDS_REPAIR" THEN "MAINTENANCE" ELSE "AVAILABLE"

\* The individual returns an execution makes: item and reported condition
\* (returnItems reports GOOD for a request that names no condition).
ReturnsOf(e) ==
  IF procs[e].op = "returnItems"
    THEN {[itemId |-> procs[e].input.returns[k].gearItemId,
           condition |-> IF procs[e].input.returns[k].condition = Null THEN "GOOD"
                         ELSE procs[e].input.returns[k].condition] :
            k \in {n \in 1..Len(procs[e].input.returns) :
                     procs[e].input.returns[n].gearItemId # Null}}
  ELSE IF procs[e].op = "returnItemByCode" /\ procs[e].gearItem # NoGearItem
    THEN {[itemId |-> procs[e].gearItem.id, condition |-> procs[e].input.condition]}
  ELSE {}

\* No other execution returns the same item.
ReturnedByNoOther(e, itemId) ==
  \A o \in Executions \ {e} : \A r \in ReturnsOf(o) : r.itemId # itemId

NoOpenLineFor(itemId) ==
  \A id \in DOMAIN checkoutDb :
    LET co == checkoutFindById(checkoutDb, id)
    IN co.status \in {STATUS_ACTIVE, STATUS_PARTIALLY_RETURNED}
         => \A i \in 1..Len(co.items) :
              ~(co.items[i].gearItemId = itemId /\ co.items[i].returnedAt = NoDate)

\* The execution takes the step that leaves the named position.
Leaves(e, pc) == procs[e].pc = pc /\ procs'[e].pc # pc

\* C21: when returnItemByCode, having found the item CHECKED_OUT, looks for its
\* checkout and no ACTIVE or PARTIALLY_RETURNED checkout has an unresolved line
\* for the item, it fails with checkout_not_found and resolves nothing: the
\* stored gear items and checkouts stay as they are, it has saved nothing and
\* no event is published.
C21_NoCheckoutIsSurfaced ==
  [][ \A e \in Executions :
        (Leaves(e, "rc_findCheckout") /\ NoOpenLineFor(procs[e].gearItem.id))
        => /\ procs'[e].pc = "done"
           /\ procs'[e].outcome = "err"
           /\ procs'[e].error = [type |-> "checkout_not_found"]
           /\ writes'[e] = <<>>
           /\ gearItemDb' = gearItemDb
           /\ checkoutDb' = checkoutDb
           /\ events' = events ]_vars

\* returnItemByCode has failed with checkout_not_found for an item the catalog
\* still holds as CHECKED_OUT although its line is resolved in the store.
C21_Witness ==
  \E e \in Executions :
    /\ procs[e].op = "returnItemByCode"
    /\ Done(e) /\ procs[e].outcome = "err"
    /\ procs[e].error = [type |-> "checkout_not_found"]
    /\ gearItemDb[procs[e].gearItem.id].status = "CHECKED_OUT"
    /\ NoOpenLineFor(procs[e].gearItem.id)
    /\ writes[e] = <<>>

\* C22: returnItems fails with checkout_not_found when no checkout is stored
\* under the id and with checkout_already_completed when the stored checkout is
\* COMPLETED, whatever the batch holds; it does so before applying any request:
\* it has no running copy and no queued gear item update, has saved nothing,
\* and repositories and events are as they were.
C22_ReturnItemsFailsFast ==
  [][ \A e \in Executions :
        (Leaves(e, "idle") /\ procs'[e].op = "returnItems")
        => LET id == procs'[e].input.checkoutId
               missing == id \notin DOMAIN checkoutDb
               completed == ~missing /\ checkoutDb[id].status = STATUS_COMPLETED
           IN /\ missing =>
                   procs'[e].error = [type |-> "checkout_not_found", checkoutId |-> id]
              /\ completed =>
                   procs'[e].error = [type |-> "checkout_already_completed"]
              /\ (missing \/ completed) =>
                   /\ procs'[e].pc = "done"
                   /\ procs'[e].outcome = "err"
                   /\ procs'[e].current = NoCheckout
                   /\ procs'[e].toUpdate = <<>>
                   /\ writes'[e] = <<>>
                   /\ checkoutDb' = checkoutDb
                   /\ gearItemDb' = gearItemDb
                   /\ events' = events ]_vars

\* One returnItems call with an empty batch refused on the completed checkout,
\* another with a request in its batch refused for an unknown checkout id.
C22_Witness ==
  \E e, o \in Executions :
    /\ procs[e].op = "returnItems" /\ Done(e)
    /\ procs[e].error = [type |-> "checkout_already_completed"]
    /\ procs[e].input.returns = <<>>
    /\ checkoutDb[procs[e].input.checkoutId].status = STATUS_COMPLETED
    /\ procs[o].op = "returnItems" /\ Done(o)
    /\ procs[o].error.type = "checkout_not_found"
    /\ Len(procs[o].input.returns) = 1
    /\ procs[o].input.checkoutId \notin DOMAIN checkoutDb

\* The checkout after the requests were applied to it one after the other, in
\* list order, each to the outcome of the one before (requests that name
\* nothing are passed over; a request that fails leaves the copy as it is).
RECURSIVE AppliedInOrder(_, _, _)
AppliedInOrder(co, requests, now) ==
  IF requests = <<>> THEN co
  ELSE LET req == Head(requests)
           res == IF req.gearItemId # Null
                    THEN returnItem(co, req.gearItemId,
                                    IF req.condition = Null THEN "GOOD" ELSE req.condition,
                                    req.notes, now)
                  ELSE IF req.gearTypeId # Null /\ req.quantity # 0
                    THEN returnBulkItem(co, req.gearTypeId, req.quantity, req.notes, now)
                  ELSE ok(co)
       IN AppliedInOrder(IF res.ok THEN res.value ELSE co, Tail(requests), now)

\* What the execution wrote, by kind, in the order of the writes.
WriteKinds(e) == [i \in 1..Len(writes[e]) |-> writes[e][i].kind]

\* C23: a returnItems call saves the checkout once, and what it saves is the
\* checkout it loaded with the requests of the batch applied in list order;
\* a call that succeeds has written the checkout first and once, then gear
\* items only, then its one event, an ItemsReturned whose checkoutComplete
\* flag tells whether the saved checkout is COMPLETED.
C23_OneSaveThenItemsThenOneEvent ==
  [][ \A e \in Executions :
        LET final == AppliedInOrder(procs[e].initial, procs[e].input.returns, clock)
        IN /\ (procs[e].op = "returnItems" /\ writes'[e] # writes[e]
                /\ writes'[e][Len(writes'[e])].kind = "checkout")
              => /\ writes[e] = <<>>
                 /\ checkoutFindById(checkoutDb', procs[e].initial.id) = final
           /\ (procs[e].op = "returnItems" /\ ~Done(e) /\ procs'[e].outcome = "ok")
              => LET n == Len(writes'[e])
                     kinds == [i \in 1..n |-> writes'[e][i].kind]
                 IN /\ n >= 2
                    /\ kinds[1] = "checkout"
                    /\ kinds[n] = "event"
                    /\ \A i \in 2..(n - 1) : kinds[i] = "gearItem"
                    /\ Len(events') = Len(events) + 1
                    /\ events'[Len(events')].type = "ItemsReturned"
                    /\ events'[Len(events')].payload.checkoutId = procs[e].initial.id
                    /\ events'[Len(events')].payload.checkoutComplete
                         = (final.status = STATUS_COMPLETED) ]_vars

\* Two batches of two requests went through one after the other: the first
\* saved the checkout, two gear items and published; the second completed the
\* checkout and its event says so.
C23_Witness ==
  \E e, o \in Executions :
    /\ e # o
    /\ procs[e].op = "returnItems" /\ Succeeded(e)
    /\ procs[o].op = "returnItems" /\ Succeeded(o)
    /\ Len(procs[e].input.returns) = 2 /\ Len(procs[o].input.returns) = 2
    /\ WriteKinds(e) = <<"checkout", "gearItem", "gearItem", "event">>
    /\ WriteKinds(o) = <<"checkout", "event">>
    /\ Len(events) = 2
    /\ ~events[1].payload.checkoutComplete
    /\ events[2].payload.checkoutComplete
    /\ checkoutDb[procs[o].initial.id].status = STATUS_COMPLETED

\* The aggregate's reason that a returnItems error type stands for.
ReasonNamed(errorType) ==
  CASE errorType = "item_not_in_checkout" -> "item_not_found"
    [] errorType = "item_already_returned" -> "item_already_returned"
    [] errorType = "checkout_already_completed" -> "checkout_completed"
    [] OTHER -> errorType

\* What the aggregate answers to the request on the running copy.
AggregateAnswer(co, req, now) ==
  IF req.gearItemId # Null
    THEN returnItem(co, req.gearItemId,
                    IF req.condition = Null THEN "GOOD" ELSE req.condition, req.notes, now)
    ELSE returnBulkItem(co, req.gearTypeId, req.quantity, req.notes, now)

\* C25: when a request makes returnItems abort, the error carries the gear
\* item id or gear type id of that request and its type names the reason the
\* aggregate gave for refusing it.
C25_ErrorNamesFailingRequest ==
  [][ \A e \in Executions :
        (Leaves(e, "ri_loop") /\ procs'[e].outcome = "err")
        => LET req == Head(procs[e].remaining)
               answer == AggregateAnswer(procs[e].current, req, clock)
               error == procs'[e].error
           IN /\ ~answer.ok
              /\ "itemId" \in DOMAIN error
              /\ error.itemId = (IF req.gearItemId # Null THEN req.gearItemId
                                 ELSE req.gearTypeId)
              /\ ReasonNamed(error.type) = answer.error.type ]_vars

----------------------------------------------------------------------------
(* Properties of the use cases called one after the other, checked under    *)
(* SpecSys                                                                  *)

\* C24: when eventPublisher.publish rejects in returnItemByCode, returnItems or
\* createCheckout, nothing stored changes: the checkout the call saved is
\* stored as the call left it, every gear item the call saved is stored with
\* the status and time the call gave it, and no event is recorded.
C24_PublishFailureKeepsSaves ==
  [][ \A e \in Executions :
        (/\ procs[e].pc \in {"rc_publish", "ri_publish", "cc_publish"}
         /\ procs'[e].outcome = "threw")
        => /\ checkoutDb' = checkoutDb
           /\ gearItemDb' = gearItemDb
           /\ events' = events
           /\ writes'[e] = writes[e]
           /\ WroteKind(e, "checkout")
           /\ checkoutFindById(checkoutDb', procs[e].current.id) = procs[e].current
           /\ \A i \in 1..Len(writes[e]) :
                writes[e][i].kind = "gearItem"
                => LET saved == gearItemDb'[writes[e][i].id]
                   IN /\ saved.updatedAt = clock
                      /\ IF procs[e].op = "createCheckout"
                           THEN saved.status = "CHECKED_OUT"
                           ELSE saved.status \in {"AVAILABLE", "MAINTENANCE"} ]_vars

\* createCheckout threw because the publish was rejected: the new checkout
\* and the checked out item are stored, no event is.
C24_Witness ==
  /\ procs["e1"].op = "createCheckout"
  /\ Done("e1")
  /\ procs["e1"].outcome = "threw"
  /\ procs["e1"].error = [type |-> "publish_rejected"]
  /\ checkoutDb[procs["e1"].current.id].status = STATUS_ACTIVE
  /\ gearItemDb["g3"].status = "CHECKED_OUT"
  /\ WriteKinds("e1") = <<"checkout", "gearItem">>
  /\ events = <<>>

\* C26: createCheckout succeeds only for a member whom getCheckoutEligibility,
\* asked on the stored checkouts at the same time, reports eligible.
C26_CreatedOnlyForEligible ==
  \A e \in Executions :
    (procs[e].op = "createCheckout" /\ Succeeded(e))
    => getCheckoutEligibility(MemberDb, checkoutDb, procs[e].input.memberId, clock).eligible

\* The status changes a gear item may go through.
AllowedTransitions ==
  { <<"AVAILABLE", "CHECKED_OUT">>,
    <<"CHECKED_OUT", "AVAILABLE">>, <<"CHECKED_OUT", "MAINTENANCE">>,
    <<"AVAILABLE", "MAINTENANCE">>,
    <<"MAINTENANCE", "AVAILABLE">>,
    <<"AVAILABLE", "RETIRED">>, <<"MAINTENANCE", "RETIRED">> }

\* The entity call answers ok exactly from the statuses given, moving the
\* item to one of the statuses given; refused, it answers an error value.
MovesOnlyFrom(item, answer, from, to) ==
  IF item.status \in from
    THEN answer.ok /\ answer.value.status \in to
    ELSE ~answer.ok /\ "type" \in DOMAIN answer.error

\* A use case call on one stored item has just answered.
ItemCallAnswered(op) ==
  /\ result = NoResult
  /\ result' # NoResult
  /\ result'.op = op
  /\ result'.input \in DOMAIN gearItemDb

\* C27: the status of a stored gear item changes only along the allowed
\* transitions; each transition method answers ok only from its source
\* statuses and an error value otherwise; and a maintenance, retire or
\* condition call that is refused leaves the store as it was.
C27_StatusTransitions ==
  [][ /\ \A id \in DOMAIN gearItemDb \cap DOMAIN gearItemDb' :
           \/ gearItemDb'[id].status = gearItemDb[id].status
           \/ <<gearItemDb[id].status, gearItemDb'[id].status>> \in AllowedTransitions
      /\ \A id \in DOMAIN gearItemDb :
           LET item == gearItemDb[id]
           IN /\ MovesOnlyFrom(item, markCheckedOut(item, clock),
                               {"AVAILABLE"}, {"CHECKED_OUT"})
              /\ \A c \in GearCondition :
                   MovesOnlyFrom(item, markReturned(item, c, clock),
                                 {"CHECKED_OUT"}, {"AVAILABLE", "MAINTENANCE"})
              /\ MovesOnlyFrom(item, sendToMaintenance(item, Undefined, clock),
                               {"AVAILABLE"}, {"MAINTENANCE"})
              /\ \A c \in GearCondition :
                   MovesOnlyFrom(item, returnFromMaintenance(item, c, clock),
                                 {"MAINTENANCE"}, {"AVAILABLE"})
              /\ MovesOnlyFrom(item, retire(item, clock),
                               {"AVAILABLE", "MAINTENANCE"}, {"RETIRED"})
              /\ \A c \in GearCondition :
                   MovesOnlyFrom(item, updateCondition(item, c, clock),
                                 {"AVAILABLE", "MAINTENANCE"}, {item.status})
      /\ \A op \in {"sendItemToMaintenance", "returnItemFromMaintenance", "retireItem",
                     "updateGearItem"} :
           (ItemCallAnswered(op) /\ ~result'.res.ok) => gearItemDb' = gearItemDb
      /\ (ItemCallAnswered("sendItemToMaintenance")
          /\ gearItemDb[result'.input].status # "AVAILABLE") => ~result'.res.ok
      /\ (ItemCallAnswered("returnItemFromMaintenance")
          /\ gearItemDb[result'.input].status # "MAINTENANCE") => ~result'.res.ok
      /\ (ItemCallAnswered("retireItem")
          /\ gearItemDb[result'.input].status \in {"CHECKED_OUT", "RETIRED"})
         => ~result'.res.ok
      /\ (ItemCallAnswered("updateGearItem")
          /\ gearItemDb[result'.input].status = "CHECKED_OUT"
          /\ result'.res.ok)
         => result'.res.value.condition = gearItemDb[result'.input].condition ]_vars

\* A retired item was sent to maintenance: the call was refused and the item
\* is still retired.
C27_Witness ==
  /\ result # NoResult
  /\ result.op = "sendItemToMaintenance"
  /\ result.input \in DOMAIN gearItemDb
  /\ gearItemDb[result.input].status = "RETIRED"
  /\ ~result.res.ok
  /\ result.res.error = [type |-> "is_retired"]

\* A deleteGearType call has just answered.
DeleteAnswered ==
  /\ result = NoResult
  /\ result' # NoResult
  /\ result'.op = "deleteGearType"

ItemsOfType(itemDb, typeId) == {id \in DOMAIN itemDb : itemDb[id].gearTypeId = typeId}

\* C28: deleteGearType of a stored type with items that are CHECKED_OUT fails
\* with has_checked_out_items and their count and deletes nothing; of a stored
\* type with none, it succeeds and neither the type nor an item of the type is
\* stored any more, all other types and items being kept.
C28_DeleteGearType ==
  [][ (DeleteAnswered /\ result'.input \in DOMAIN gearTypeDb)
      => LET typeId == result'.input
             out == {id \in ItemsOfType(gearItemDb, typeId) :
                       gearItemDb[id].status = "CHECKED_OUT"}
         IN IF out # {}
              THEN /\ result'.res = err([type |-> "has_checked_out_items",
                                         count |-> Cardinality(out)])
                   /\ gearTypeDb' = gearTypeDb
                   /\ gearItemDb' = gearItemDb
              ELSE /\ result'.res.ok
                   /\ DOMAIN gearTypeDb' = DOMAIN gearTypeDb \ {typeId}
                   /\ ItemsOfType(gearItemDb', typeId) = {}
                   /\ DOMAIN gearItemDb'
                        = DOMAIN gearItemDb \ ItemsOfType(gearItemDb, typeId)
                   /\ \A id \in DOMAIN gearItemDb' : gearItemDb'[id] = gearItemDb[id]
                   /\ \A t \in DOMAIN gearTypeDb' : gearTypeDb'[t] = gearTypeDb[t] ]_vars

\* The type whose two items are in was deleted with them, and then the type
\* with two items out was refused.
C28_Witness ==
  /\ result # NoResult
  /\ result.op = "deleteGearType"
  /\ result.res = err([type |-> "has_checked_out_items", count |-> 2])
  /\ result.input \in DOMAIN gearTypeDb
  /\ Cardinality(ItemsOfType(gearItemDb, result.input)) = 3
  /\ "t2" \notin DOMAIN gearTypeDb
  /\ DOMAIN gearItemDb = {"g1", "g2", "g3"}

\* No two stored gear items have the same code.
UniqueCodes ==
  \A i, j \in DOMAIN gearItemDb : gearItemDb[i].code = gearItemDb[j].code => i = j

\* An addGearItem call has just answered.
AddAnswered ==
  /\ result = NoResult
  /\ result' # NoResult
  /\ result'.op = "addGearItem"

\* Some stored item has the code, trimmed and upper-cased.
CodeTaken(code) ==
  \E id \in DOMAIN gearItemDb : gearItemDb[id].code = toUpperCase(Trim(code))

Refused(errorType) ==
  /\ ~result'.res.ok
  /\ result'.res.error.type = errorType
  /\ gearItemDb' = gearItemDb
  /\ gearTypeDb' = gearTypeDb

\* C29 as stated: stored codes are unique; addGearItem with a code that is
\* taken fails with duplicate_code and stores nothing, and addGearItem on a
\* bulk-tracked type fails with not_individual_tracked.
C29_DuplicateCodeAlwaysReported ==
  /\ []UniqueCodes
  /\ [][ AddAnswered
          => /\ CodeTaken(result'.input.code) => Refused("duplicate_code")
             /\ (/\ result'.input.gearTypeId \in DOMAIN gearTypeDb
                 /\ gearTypeDb[result'.input.gearTypeId].trackingMode = "BULK")
                => Refused("not_individual_tracked") ]_vars

\* C29, amended: stored codes are unique; addGearItem fails with
\* gear_type_not_found for a type that is not stored, else with
\* not_individual_tracked for a bulk-tracked type, else with duplicate_code
\* for a code that is taken, in each case storing nothing; and a stored new
\* item carries the trimmed, upper-cased code.
C29_CodesUnique ==
  /\ []UniqueCodes
  /\ [][ AddAnswered
          => LET input == result'.input
             IN IF input.gearTypeId \notin DOMAIN gearTypeDb
                  THEN Refused("gear_type_not_found")
                ELSE IF gearTypeDb[input.gearTypeId].trackingMode = "BULK"
                  THEN Refused("not_individual_tracked")
                ELSE IF CodeTaken(input.code)
                  THEN /\ Refused("duplicate_code")
                       /\ result'.res.error.code = toUpperCase(Trim(input.code))
                ELSE result'.res.ok
                       => /\ result'.res.value.code = toUpperCase(Trim(input.code))
                          /\ DOMAIN gearItemDb'
                               = DOMAIN gearItemDb \cup {result'.res.value.id}
                          /\ result'.res.value.id \notin DOMAIN gearItemDb ]_vars

\* G7 was added as "g7", and adding it again as "G7 " was refused.
C29_Witness ==
  /\ result # NoResult
  /\ result.op = "addGearItem"
  /\ result.input.code = <<"G", "7", " ">>
  /\ result.res = err([type |-> "duplicate_code", code |-> <<"G", "7">>])
  /\ \E id \in DOMAIN gearItemDb : gearItemDb[id].code = <<"G", "7">>
  /\ Cardinality(DOMAIN gearItemDb) = 6

\* The two names are equal but for the case of their letters.
EqualIgnoringCase(a, b) ==
  /\ Len(a) = Len(b)
  /\ \A i \in 1..Len(a) :
       \/ a[i] = b[i]
       \/ {a[i], b[i]} \in {{"A", "a"}, {"B", "b"}}

\* C30: createGearType with a name that, trimmed, equals a stored type's name
\* but for letter case answers duplicate_name with the trimmed name and stores
\* nothing, whatever else is wrong with the input.
C30_DuplicateNameRefused ==
  [][ (/\ result = NoResult
       /\ result' # NoResult
       /\ result'.op = "createGearType"
       /\ \E t \in DOMAIN gearTypeDb :
            EqualIgnoringCase(gearTypeDb[t].name, Trim(result'.input.name)))
      => /\ result'.res = err([type |-> "duplicate_name",
                               name |-> Trim(result'.input.name)])
         /\ gearTypeDb' = gearTypeDb
         /\ gearItemDb' = gearItemDb ]_vars

\* A bulk type without a quantity, under a name stored in another case and
\* typed with blanks around it, was refused for its name.
C30_Witness ==
  /\ result # NoResult
  /\ result.op = "createGearType"
  /\ result.input.trackingMode = "BULK"
  /\ result.input.totalQuantity = NoNumber
  /\ result.res = err([type |-> "duplicate_name", name |-> <<"a", "B">>])
  /\ \E t \in DOMAIN gearTypeDb : gearTypeDb[t].name = <<"A", "b">>
  /\ GearType_create(result.input, "n1", clock).error.type = "bulk_requires_quantity"

----------------------------------------------------------------------------
(* Properties of the stores between calls that ran to their end, checked    *)
(* under SpecRun                                                            *)

\* The lines of the stored checkouts that are not completed, each with the id
\* of its checkout and its place in it.
OpenCheckoutLines(db) ==
  UNION { { [checkoutId |-> id, index |-> i, line |-> checkoutFromRecord(db[id]).items[i]] :
              i \in 1..Len(checkoutFromRecord(db[id]).items) } :
          id \in checkoutFindAll(db, {STATUS_ACTIVE, STATUS_PARTIALLY_RETURNED}) }

\* The unresolved lines for single items among them.
UnresolvedItemLines(db) ==
  {l \in OpenCheckoutLines(db) : l.line.gearItemId # Null /\ l.line.returnedAt = NoDate}

\* C31: between calls, no two unresolved individual lines of the stored
\* checkouts that are not completed reference the same gear item, be they
\* lines of one checkout or of two.
C31_NoDoubleCheckout ==
  Idle =>
    \A l1, l2 \in UnresolvedItemLines(checkoutDb) :
      l1.line.gearItemId = l2.line.gearItemId => l1 = l2

\* C32: between calls, a stored gear item is CHECKED_OUT exactly when some
\* stored ACTIVE or PARTIALLY_RETURNED checkout has an unresolved line for it.
C32_CatalogMatchesCheckouts ==
  Idle =>
    \A id \in DOMAIN gearItemDb :
      gearItemDb[id].status = "CHECKED_OUT"
        <=> \E l \in UnresolvedItemLines(checkoutDb) : l.line.gearItemId = id

\* The parts of createCheckout from which it can still return an error: its
\* start, the loop over the requested items, and Checkout.create.
BeforeSaves == {"idle", "cc_loop", "cc_create"}

\* C37: createCheckout returns an error only before its first save, and up to
\* there, through every item it resolves and marks checked out in memory, it
\* saves no checkout and no gear item and publishes no event; so a call that
\* returns an error has stored and published nothing.
C37_CreateCheckoutAllOrNothing ==
  [][ (procs'["e1"].op = "createCheckout" /\ procs'["e1"] # procs["e1"])
      => /\ procs'["e1"].outcome = "err" => procs["e1"].pc \in BeforeSaves
         /\ (procs["e1"].pc \in BeforeSaves
             /\ procs'["e1"].pc \in {"cc_loop", "cc_create", "done"})
            => /\ checkoutDb' = checkoutDb
               /\ gearItemDb' = gearItemDb
               /\ gearTypeDb' = gearTypeDb
               /\ events' = events
               /\ writes'["e1"] = <<>> ]_vars

\* createCheckout has returned insufficient_quantity for its second item after
\* the first, G3, had been marked checked out in memory: G3 is stored as
\* AVAILABLE, no checkout was added and nothing was published.
C37_Witness ==
  /\ procs["e1"].op = "createCheckout"
  /\ procs["e1"].outcome = "err"
  /\ procs["e1"].error.type = "insufficient_quantity"
  /\ Len(procs["e1"].toUpdate) = 1
  /\ procs["e1"].toUpdate[1].status = "CHECKED_OUT"
  /\ gearItemDb[procs["e1"].toUpdate[1].id].status = "AVAILABLE"
  /\ DOMAIN checkoutDb = DOMAIN SeedCheckoutDb
  /\ events = <<>>

\* The number of the requests that, applied in order by the loop of
\* returnItems, were applied to the running copy as a return: a successful
\* returnItem or returnBulkItem changes its line, a request the loop passes
\* over leaves the running copy as it was.
RECURSIVE AppliedCount(_, _, _)
AppliedCount(co, requests, now) ==
  IF requests = <<>> THEN 0
  ELSE LET applied == applyReturnRequest(co, Head(requests), gearItemDb, now)
       IN IF ~applied.ok THEN 0
          ELSE (IF applied.value.checkout # co THEN 1 ELSE 0)
               + AppliedCount(applied.value.checkout, Tail(requests), now)

\* C38: the returnCount of the ItemsReturned event a successful returnItems
\* publishes is the number of returns that were applied to the checkout, so
\* that every request of the batch was applied as a return.
C38_ReturnCountIsReturnsApplied ==
  [][ (procs'["e1"].op = "returnItems" /\ procs'["e1"].outcome = "ok"
       /\ procs["e1"].outcome # "ok")
      => LET event == events'[Len(events')]
         IN /\ event.type = "ItemsReturned"
            /\ event.payload.returnCount
                 = AppliedCount(procs["e1"].initial, procs["e1"].input.returns, clock) ]_vars

\* The quantities still out on the lines, added up.
RECURSIVE SumOutstanding(_)
SumOutstanding(lines) ==
  IF lines = {} THEN 0
  ELSE LET l == CHOOSE x \in lines : TRUE
       IN (l.line.quantity - l.line.returnedQuantity) + SumOutstanding(lines \ {l})

\* The quantity of the gear type that is out on stored checkouts that are not
\* completed.
Outstanding(db, typeId) ==
  SumOutstanding({l \in OpenCheckoutLines(db) : l.line.gearTypeId = typeId})

\* C36: between calls, for every stored gear type tracked in bulk the quantity
\* out on the stored checkouts that are not completed is at most the type's
\* totalQuantity.
C36_BulkNeverOverLent ==
  Idle =>
    \A t \in DOMAIN gearTypeDb :
      gearTypeDb[t].trackingMode = "BULK"
        => Outstanding(checkoutDb, t) <= gearTypeDb[t].totalQuantity

\* The unresolved lines of the stored checkouts that are not completed.
UnresolvedLines(db) == {l \in OpenCheckoutLines(db) : ~LineResolved(l.line)}

\* The line is for the gear type or for one of its stored items.
LineOfType(l, typeId) ==
  \/ l.line.gearTypeId = typeId
  \/ /\ l.line.gearItemId \in DOMAIN gearItemDb
     /\ gearItemDb[l.line.gearItemId].gearTypeId = typeId

\* C39: between calls, every unresolved line of a stored checkout that is not
\* completed references a stored gear item or a stored gear type; and
\* deleteGearType does not succeed for a type that has such a line, be it for
\* the type or for one of its items.
C39_LoansKeepCatalogRecords ==
  /\ [](Idle =>
         \A l \in UnresolvedLines(checkoutDb) :
           IF l.line.gearItemId # Null THEN l.line.gearItemId \in DOMAIN gearItemDb
           ELSE l.line.gearTypeId \in DOMAIN gearTypeDb)
  /\ [][ (result'.op = "deleteGearType" /\ result # result' /\ result'.res.ok)
         => ~\E l \in UnresolvedLines(checkoutDb) : LineOfType(l, result'.input) ]_vars

\* C40: no two stored gear types have names that are equal but for the case
\* of their letters.
C40_TypeNamesUnique ==
  \A t, u \in DOMAIN gearTypeDb :
    t # u => ~EqualIgnoringCase(gearTypeDb[t].name, gearTypeDb[u].name)

----------------------------------------------------------------------------
(* Further properties of the aggregate, checked under Spec *)

\* Some one return call on the checkout succeeds and leaves its line i
\* resolved: returnItem for the line's item, or returnBulkItem for the line's
\* type with the quantity the line still lacks or any other quantity.
CanResolve(co, i) ==
  IF co.items[i].gearItemId # Null
    THEN \E r \in ReturnItemInputs :
           LET res == returnItem(co, co.items[i].gearItemId, r.condition, r.notes, clock)
           IN res.ok /\ LineResolved(res.value.items[i])
    ELSE \E q \in ReturnQuantities \cup {co.items[i].quantity - co.items[i].returnedQuantity} :
           LET res == returnBulkItem(co, co.items[i].gearTypeId, q, Undefined, clock)
           IN res.ok /\ LineResolved(res.value.items[i])

\* The checkout can be brought to COMPLETED by at most n successful return
\* calls.
RECURSIVE CanComplete(_, _)
CanComplete(co, n) ==
  \/ co.status = STATUS_COMPLETED
  \/ /\ n > 0
     /\ \/ \E r \in ReturnItemInputs :
             LET res == returnItem(co, "g1", r.condition, r.notes, clock)
             IN res.ok /\ CanComplete(res.value, n - 1)
        \/ \E t \in GearTypeIds, q \in ReturnQuantities :
             LET res == returnBulkItem(co, t, q, Undefined, clock)
             IN res.ok /\ CanComplete(res.value, n - 1)

\* C33: every unresolved line of a checkout, as created and after any
\* returns, can be resolved by some return call, and the checkout can be
\* brought to COMPLETED with one successful return call for each line.
C33_EveryCheckoutCanBeCompleted ==
  checkout # NoCheckout =>
    /\ \A i \in 1..Len(checkout.items) :
         ~LineResolved(checkout.items[i]) => CanResolve(checkout, i)
    /\ result.op = "create" => CanComplete(checkout, Len(checkout.items))

\* The place of a status in the order ACTIVE, PARTIALLY_RETURNED, COMPLETED.
StatusRank(status) ==
  IF status = STATUS_ACTIVE THEN 1
  ELSE IF status = STATUS_PARTIALLY_RETURNED THEN 2
  ELSE 3

\* C34: a successful returnItem or returnBulkItem, whatever its quantity,
\* never moves the status back in the order ACTIVE, PARTIALLY_RETURNED,
\* COMPLETED, and never clears a completedAt that is set.
C34_StatusNeverMovesBack ==
  [][ (checkout # NoCheckout /\ result'.op \in {"returnItem", "returnBulkItem"}
       /\ result'.res.ok)
      => /\ StatusRank(checkout'.status) >= StatusRank(checkout.status)
         /\ (checkout.completedAt # NoDate => checkout'.completedAt # NoDate) ]_vars

\* C35: on a checkout that is not completed and has a line for the type,
\* returnBulkItem(typeId, 0, no notes) succeeds, and the checkout it returns
\* has the receiver's status and completedAt and, on every line, the
\* receiver's returnedQuantity, returnedAt and returnNotes.
C35_ZeroQuantityIsNoOp ==
  (checkout # NoCheckout /\ checkout.status # STATUS_COMPLETED) =>
    \A t \in GearTypeIds :
      (\E i \in 1..Len(checkout.items) : checkout.items[i].gearTypeId = t) =>
        LET res == returnBulkItem(checkout, t, 0, Undefined, clock)
        IN /\ res.ok
           /\ res.value.status = checkout.status
           /\ res.value.completedAt = checkout.completedAt
           /\ Len(res.value.items) = Len(checkout.items)
           /\ \A i \in 1..Len(checkout.items) :
                /\ res.value.items[i].returnedQuantity = checkout.items[i].returnedQuantity
                /\ res.value.items[i].returnedAt = checkout.items[i].returnedAt
                /\ res.value.items[i].returnNotes = checkout.items[i].returnNotes

====
